---- MODULE Spec2Model ----
(***************************************************************************)
(* A model of the Places sensor (custom_components/places/sensor.py): the  *)
(* do_update cycle of one entity -- gate, reverse geocode, parser, display *)
(* formatter, extended (details / wikidata) requests, state-update event   *)
(* and JSON snapshot -- and the two entry points that start a cycle,       *)
(* tsc_update and async_update.                                            *)
(*                                                                         *)
(* Values.  A Python str is a sequence of one-character strings.  None is  *)
(* the tagged tuple <<"None">>, a number is <<"num", n>>; a tag is never a *)
(* single character, so no text equals a tagged value.  A dict is a TLA+   *)
(* function whose DOMAIN is the dict's key set.                            *)
(*                                                                         *)
(* Geometry.  A coordinate is an angle, counted in the angle that spans 1   *)
(* decimetre of a meridian, so that movements below 1 m, between 1 m and   *)
(* 10 m and above 10 m are all distinct positions.  A tracker moves along  *)
(* a meridian or along a parallel, where the distance is the sum of the    *)
(* distance north and the distance east; a step east is shorter by the     *)
(* cosine of the latitude.                                                 *)
(***************************************************************************)
EXTENDS Integers, Sequences, FiniteSets, TLC

\* ------------------------------------------------------------------ values

None == <<"None">>

Num(n) == <<"num", n>>

IsNum(v) == Len(v) = 2 /\ v[1] = "num"

\* float(str(x)) of a numeric string
ToFloat(v) == v[2]

Range(s) == {s[i] : i \in 1..Len(s)}

\* ------------------------------------------------------------------ str

Uppers == <<"A","B","C","D","E","F","G","H","I","J","K","L","M",
            "N","O","P","Q","R","S","T","U","V","W","X","Y","Z">>

Lowers == <<"a","b","c","d","e","f","g","h","i","j","k","l","m",
            "n","o","p","q","r","s","t","u","v","w","x","y","z">>

IndexIn(c, alphabet) ==
    IF \E i \in 1..Len(alphabet) : alphabet[i] = c
    THEN CHOOSE i \in 1..Len(alphabet) : alphabet[i] = c
    ELSE 0

\* the lower-case letter of each upper-case letter
LowerOf == [c \in Range(Uppers) |-> Lowers[IndexIn(c, Uppers)]]

\* the upper-case letter of each lower-case letter
UpperOf == [c \in Range(Lowers) |-> Uppers[IndexIn(c, Lowers)]]

LowerChar(c) == IF c \in DOMAIN LowerOf THEN LowerOf[c] ELSE c

UpperChar(c) == IF c \in DOMAIN UpperOf THEN UpperOf[c] ELSE c

IsLetter(c) == c \in DOMAIN LowerOf \/ c \in DOMAIN UpperOf

IsSpace(c) == c \in {" ", "\n", "\t"}

\* str.lower()
Lower(s) == [i \in 1..Len(s) |-> LowerChar(s[i])]

\* str.upper()
Upper(s) == [i \in 1..Len(s) |-> UpperChar(s[i])]

\* str.title(): a letter that follows a non-letter is upper-cased, every
\* other letter is lower-cased
Title(s) ==
    [i \in 1..Len(s) |->
        IF i = 1 \/ ~IsLetter(s[i-1]) THEN UpperChar(s[i]) ELSE LowerChar(s[i])]

RECURSIVE LStrip(_)
LStrip(s) == IF s # <<>> /\ IsSpace(Head(s)) THEN LStrip(Tail(s)) ELSE s

RECURSIVE RStrip(_)
RStrip(s) ==
    IF s # <<>> /\ IsSpace(s[Len(s)]) THEN RStrip(SubSeq(s, 1, Len(s) - 1)) ELSE s

\* str.strip()
Strip(s) == RStrip(LStrip(s))

\* s[:n]
Take(s, n) == SubSeq(s, 1, IF n < Len(s) THEN n ELSE Len(s))

\* s[n:]
Drop(s, n) == SubSeq(s, n + 1, Len(s))

\* s[:-n]
DropLast(s, n) == SubSeq(s, 1, Len(s) - n)

\* s.startswith(p)
StartsWith(s, p) == Len(p) <= Len(s) /\ SubSeq(s, 1, Len(p)) = p

\* p in s, for strings
Contains(s, p) ==
    \E i \in 0..(Len(s) - Len(p)) : SubSeq(s, i + 1, i + Len(p)) = p

\* the first index at which p occurs in s, 0 when it does not
Find(s, p) ==
    IF Contains(s, p)
    THEN 1 + CHOOSE i \in 0..(Len(s) - Len(p)) :
                 /\ SubSeq(s, i + 1, i + Len(p)) = p
                 /\ \A j \in 0..(i - 1) : SubSeq(s, j + 1, j + Len(p)) # p
    ELSE 0

\* s.replace(p, r), p not empty
RECURSIVE Replace(_, _, _)
Replace(s, p, r) ==
    IF Find(s, p) = 0 THEN s
    ELSE SubSeq(s, 1, Find(s, p) - 1) \o r
         \o Replace(Drop(s, Find(s, p) + Len(p) - 1), p, r)

\* s.split(p), p not empty
RECURSIVE Split(_, _)
Split(s, p) ==
    IF Find(s, p) = 0 THEN <<s>>
    ELSE <<SubSeq(s, 1, Find(s, p) - 1)>>
         \o Split(Drop(s, Find(s, p) + Len(p) - 1), p)

\* sep.join(items)
RECURSIVE Join(_, _)
Join(items, sep) ==
    IF items = <<>> THEN <<>>
    ELSE IF Len(items) = 1 THEN items[1]
    ELSE items[1] \o sep \o Join(Tail(items), sep)

\* ------------------------------------------------------------------ text

S_stationary == <<"s","t","a","t","i","o","n","a","r","y">>

S_away == <<"a","w","a","y">>

S_not_home == <<"n","o","t","_","h","o","m","e">>

S_notset == <<"n","o","t","s","e","t">>

S_home == <<"h","o","m","e">>

S_towards_home == <<"t","o","w","a","r","d","s"," ","h","o","m","e">>

S_away_from_home == <<"a","w","a","y"," ","f","r","o","m"," ","h","o","m","e">>

S_zone_prefix == <<"z","o","n","e",".">>

O_zone == <<"z","o","n","e">>

O_zone_name == <<"z","o","n","e","_","n","a","m","e">>

O_place == <<"p","l","a","c","e">>

O_place_name == <<"p","l","a","c","e","_","n","a","m","e">>

O_city == <<"c","i","t","y">>

O_street == <<"s","t","r","e","e","t">>

O_do_not_reorder == <<"d","o","_","n","o","t","_","r","e","o","r","d","e","r">>

O_formatted_place ==
    <<"f","o","r","m","a","t","t","e","d","_","p","l","a","c","e">>

\* ------------------------------------------------------------------ constants

\* "elif int(distance_traveled) < 10", metres
MinDistanceM == 10

\* "self._updateskipped > 3"
MaxSkipped == 3

\* "if deviation <= 0.2:  # in kilometers", here in decimetres
StationaryDeviation == 2000

\* one degree of a meridian in decimetres, with "r = 6371"
DegreeLen == 1111900

\* " (since HH:MM)", the suffix previous_state drops with [:-14]
TimeSuffixLen == 14

\* "new_state[:255]"
MaxStateLen == 255

\* ------------------------------------------------------------------ bounds

\* the model stops counting skipped updates here (the code has no limit)
SkipCap == 5

\* ------------------------------------------------------------------ host

Threads == {"t1", "t2"}

\* friendly names of the zone entities, hass.states.get("zone." + id).name
ZoneName(zone_id) ==
    IF zone_id = S_zone_prefix \o S_home THEN <<"H","o","m","e">> ELSE None

\* what hass.states.get(devicetracker_id) holds when a cycle reads it: the
\* state, and the zone attribute of that state
TrackerStates ==
    { [state |-> S_not_home, zone |-> None],
      [state |-> S_home, zone |-> S_home],
      [state |-> <<>>, zone |-> None] }

\* latitudes, in decimetres along the line: 0.5 m, 9.5 m and 10 m apart
Latitudes == {Num(0), Num(5), Num(100)}

Reading(la, lo, ac, ts) ==
    [latitude |-> la, longitude |-> lo, gps_accuracy |-> ac,
     state |-> ts.state, zone |-> ts.zone]

\* the readings with coordinates that are numbers
NumericReadings ==
    { Reading(la, Num(0), Num(5), ts) : la \in Latitudes, ts \in TrackerStates }
    \cup { Reading(la, Num(0), Num(0), [state |-> S_not_home, zone |-> None]) :
              la \in Latitudes }

\* the readings with a coordinate that is absent or is not a number, and the
\* reading without a gps_accuracy attribute
OtherReadings ==
    { Reading(None, Num(0), Num(5), [state |-> S_not_home, zone |-> None]),
      Reading(Num(5), None, Num(5), [state |-> S_not_home, zone |-> None]),
      Reading(<<"x">>, Num(0), Num(5), [state |-> S_not_home, zone |-> None]),
      Reading(Num(100), <<"x">>, Num(5), [state |-> S_not_home, zone |-> None]),
      Reading(Num(100), Num(0), None, [state |-> S_not_home, zone |-> None]) }

Readings == NumericReadings \cup OtherReadings

\* the readings of a tracker that moves 10 m at a time, in and out of the
\* home zone, one reading with GPS accuracy 0 and one with an empty state
FarReadings ==
    { Reading(la, Num(0), Num(5), ts) :
        la \in {Num(0), Num(100)},
        ts \in { [state |-> S_not_home, zone |-> None],
                 [state |-> S_home, zone |-> S_home] } }
    \cup { Reading(Num(100), Num(0), Num(0), [state |-> S_not_home, zone |-> None]),
           Reading(Num(100), Num(0), Num(5), [state |-> <<>>, zone |-> None]) }

\* "%02d:%02d" % (now.hour, now.minute)
Clocks == { <<"0","9",":","0","5">> }

\* the configuration entries an entity is created from
ConfigPlace ==
    [options |-> Join(<<O_zone_name, O_place>>, <<",", " ">>),
     extended_attr |-> TRUE, show_time |-> FALSE, language |-> None,
     map_provider |-> "apple",
     home_latitude |-> Num(0), home_longitude |-> Num(0)]

ConfigFormattedPlace ==
    [options |-> O_formatted_place,
     extended_attr |-> TRUE, show_time |-> TRUE, language |-> None,
     map_provider |-> "osm",
     home_latitude |-> Num(0), home_longitude |-> Num(0)]

ConfigPlaceName ==
    [options |-> O_place_name,
     extended_attr |-> FALSE, show_time |-> FALSE, language |-> None,
     map_provider |-> "google",
     home_latitude |-> Num(0), home_longitude |-> Num(0)]

\* an entry that displays the raw zone only
ConfigZone ==
    [options |-> O_zone,
     extended_attr |-> FALSE, show_time |-> FALSE, language |-> None,
     map_provider |-> "apple",
     home_latitude |-> Num(0), home_longitude |-> Num(0)]

\* an entry whose home zone lies at 60 degrees north on the prime meridian
ConfigNorth ==
    [options |-> O_zone,
     extended_attr |-> TRUE, show_time |-> FALSE, language |-> None,
     map_provider |-> "apple",
     home_latitude |-> Num(60 * DegreeLen), home_longitude |-> Num(0)]

\* an entry that lists city before street
ConfigCityStreet ==
    [options |-> Join(<<O_city, O_street, O_zone>>, <<",", " ">>),
     extended_attr |-> TRUE, show_time |-> FALSE, language |-> None,
     map_provider |-> "apple",
     home_latitude |-> Num(0), home_longitude |-> Num(0)]

\* an entry that lists the same options with street before city
ConfigStreetCity ==
    [options |-> Join(<<O_street, O_zone, O_city>>, <<",", " ">>),
     extended_attr |-> FALSE, show_time |-> FALSE, language |-> None,
     map_provider |-> "apple",
     home_latitude |-> Num(0), home_longitude |-> Num(0)]

\* an entry that asks for city before street, in that order
ConfigKeepOrder ==
    [options |-> Join(<<O_do_not_reorder, O_city, O_street>>, <<",", " ">>),
     extended_attr |-> FALSE, show_time |-> FALSE, language |-> None,
     map_provider |-> "apple",
     home_latitude |-> Num(0), home_longitude |-> Num(0)]

\* an entry that asks for the French name of the place
ConfigFrench ==
    [options |-> O_place,
     extended_attr |-> TRUE, show_time |-> FALSE, language |-> <<"f","r">>,
     map_provider |-> "apple",
     home_latitude |-> Num(0), home_longitude |-> Num(0)]

\* an entry that asks for the German name and, failing that, the French one
ConfigGermanFrench ==
    [options |-> O_place,
     extended_attr |-> FALSE, show_time |-> FALSE,
     language |-> <<"d","e",",","f","r">>,
     map_provider |-> "apple",
     home_latitude |-> Num(0), home_longitude |-> Num(0)]

\* an entry made while the home zone had no latitude
ConfigNoHome ==
    [options |-> O_zone,
     extended_attr |-> FALSE, show_time |-> FALSE, language |-> None,
     map_provider |-> "apple",
     home_latitude |-> None, home_longitude |-> Num(0)]

Configs ==
    {ConfigPlace, ConfigFormattedPlace, ConfigPlaceName, ConfigZone, ConfigNorth,
     ConfigCityStreet, ConfigStreetCity, ConfigKeepOrder, ConfigFrench,
     ConfigGermanFrench, ConfigNoHome}

\* ------------------------------------------------------------------ state

VARIABLES
    config,     \* the configuration the entity was created from (self._options, ...)
    self,       \* the attributes of the Places entity
    pc,         \* per executor thread: where its do_update cycle stands
    cyc,        \* per executor thread: the local variables of its do_update call,
                \* and after the call returned what the call read and did
    jsonfile,   \* the JSON snapshot file of the entity
    throttled,  \* TRUE while THROTTLE_INTERVAL since the last async_update runs
    entry       \* the config entry and what the last step of its options flow did

vars == <<config, self, pc, cyc, jsonfile, throttled, entry>>

\* a local variable that was never assigned
Unbound == <<"Unbound">>

\* str(datetime.now())
MTimeStr == <<"str(datetime)">>

\* datetime.now(), a datetime object
MTimeObj == <<"datetime">>

\* no snapshot file on disk
NoFile == <<"NoFile">>

\* a snapshot file whose writing stopped part-way
PartialFile == <<"PartialFile">>

\* Places.__init__ up to the import of the snapshot
NewEntity(cfg) ==
    [ initial_update |-> TRUE,
      native_value |-> None,
      street_number |-> None, street |-> None, city |-> None,
      postal_town |-> None, postal_code |-> None, region |-> None,
      state_abbr |-> None, country |-> None, county |-> None,
      formatted_address |-> None, place_type |-> None, place_name |-> None,
      place_category |-> None, place_neighbourhood |-> None,
      home_latitude |-> cfg.home_latitude, home_longitude |-> cfg.home_longitude,
      latitude_old |-> None, longitude_old |-> None,
      latitude |-> None, longitude |-> None,
      devicetracker_zone |-> None, devicetracker_zone_name |-> None,
      mtime |-> MTimeStr, last_place_name |-> None,
      distance_km |-> 0, distance_m |-> 0,
      location_current |-> None, location_previous |-> None,
      updateskipped |-> 0, direction |-> S_stationary, map_link |-> None,
      formatted_place |-> None, osm_id |-> None, osm_type |-> None,
      wikidata_id |-> None, osm_dict |-> None, osm_details_dict |-> None,
      wikidata_dict |-> None ]

\* the reading of a call that has not been made
NoReading ==
    [latitude |-> None, longitude |-> None, gps_accuracy |-> None,
     state |-> None, zone |-> None]

\* the local variables of do_update as its first lines set them, with the
\* reading of the tracker, whether do_update was entered, whether it raised,
\* the requests it made, whether the reverse-geocode response decoded to a
\* non-empty value, the "error_message" of that value, and what the entity
\* knew of its place when do_update was entered
FreshLocals ==
    [ reading |-> NoReading, reason |-> None,
      entered |-> FALSE, raised |-> FALSE, calls |-> <<>>, decoded |-> FALSE,
      error_message |-> None, before |-> None,
      initial_at_gate |-> FALSE, updateskipped_at_gate |-> 0,
      previous_state |-> None, new_state |-> None, distance_traveled |-> 0,
      devicetracker_zone |-> None, devicetracker_zone_name |-> None,
      home_latitude |-> None, home_longitude |-> None,
      old_latitude |-> None, old_longitude |-> None,
      new_latitude |-> None, new_longitude |-> None,
      current_location |-> None, previous_location |-> None,
      last_place_name |-> None, prev_last_place_name |-> None,
      gps_accuracy |-> 1, now |-> None,
      distance_m |-> Unbound, distance_km |-> Unbound, direction |-> Unbound,
      proceed_with_update |-> TRUE,
      osm_decoded |-> Unbound, place_name |-> Unbound,
      osm_id |-> Unbound, osm_type |-> Unbound, wikidata_id |-> Unbound,
      osm_details_dict |-> Unbound, wikidata_dict |-> Unbound,
      changed |-> FALSE, event |-> None ]

\* ------------------------------------------------------------------ helpers

Abs(n) == IF n < 0 THEN 0 - n ELSE n

\* Places.is_float, for None, text and numeric values
IsFloat(value) == value # None /\ IsNum(value)

\* str(latitude) + "," + str(longitude)
LocationString(latitude, longitude) == <<"loc", latitude, longitude>>

\* twice the cosine of a latitude, to the nearer of 1 and 1/2: 2 below 30
\* degrees, 1 above
CosHalves(lat) == IF Abs(lat) < 30 * DegreeLen THEN 2 ELSE 1

\* homeassistant.util.location.distance, in decimetres
Distance(lat1, lon1, lat2, lon2) ==
    Abs(lat1 - lat2) + (Abs(lon1 - lon2) * CosHalves(lat1)) \div 2

\* Places.haversine, in decimetres: dlat and dlon * cos(lat1)
Haversine(lon1, lat1, lon2, lat2) ==
    Abs(lat2 - lat1) + (Abs(lon2 - lon1) * CosHalves(lat1)) \div 2

\* int(x) of a distance given in decimetres: whole metres, truncated
IntMetres(d) == d \div 10

\* round(distance_m / 1000, 3), in metres: round half to even
RoundKm(d) ==
    IF d % 10 > 5 \/ (d % 10 = 5 /\ (d \div 10) % 2 = 1)
    THEN d \div 10 + 1 ELSE d \div 10

\* Places.in_zone, of a stored tracker state
InZone(zone) ==
    IF zone # None
    THEN ~( \/ Contains(Lower(zone), S_stationary)
            \/ Lower(zone) = S_away
            \/ Lower(zone) = S_not_home
            \/ Lower(zone) = S_notset )
    ELSE FALSE

\* Places.is_devicetracker_set
IsDevicetrackerSet(r) == r.latitude # None /\ r.longitude # None

\* a reset that clears the skip count only
ResetSkipCountOnly(e) == [e EXCEPT !.updateskipped = 0]

\* a reset that also forgets the name of the place before
ResetLastPlaceNameToo(e) ==
    [e EXCEPT !.street = None, !.street_number = None, !.city = None,
              !.postal_town = None, !.postal_code = None, !.region = None,
              !.state_abbr = None, !.country = None, !.county = None,
              !.formatted_address = None, !.place_type = None,
              !.place_name = None, !.mtime = MTimeObj,
              !.osm_id = None, !.osm_type = None, !.wikidata_id = None,
              !.osm_dict = None, !.osm_details_dict = None,
              !.wikidata_dict = None, !.updateskipped = 0,
              !.last_place_name = None]

\* Places._reset_attributes
ResetAttributes(e) ==
    [e EXCEPT !.street = None, !.street_number = None, !.city = None,
              !.postal_town = None, !.postal_code = None, !.region = None,
              !.state_abbr = None, !.country = None, !.county = None,
              !.formatted_address = None, !.place_type = None,
              !.place_name = None, !.mtime = MTimeObj,
              !.osm_id = None, !.osm_type = None, !.wikidata_id = None,
              !.osm_dict = None, !.osm_details_dict = None,
              !.wikidata_dict = None, !.updateskipped = 0]

\* ------------------------------------------------------------------ do_update: up to the gate

\* previous_state, from the display value and show_time
PreviousState(native_value, show_time) ==
    IF native_value # None /\ show_time
    THEN DropLast(native_value, TimeSuffixLen)
    ELSE native_value

\* last_place_name as do_update first sets it: the name of the place the
\* entity was at before this cycle
InitialLastPlaceName(e) ==
    IF ~InZone(e.devicetracker_zone)
    THEN IF e.place_name # None /\ e.place_name # <<"-">>
         THEN e.place_name
         ELSE e.last_place_name
    ELSE e.devicetracker_zone_name

\* direction of travel
Direction(old_latitude, old_longitude, new_latitude, new_longitude, last_distance_m, distance_m) ==
    IF old_latitude # None /\ old_longitude # None
    THEN IF Haversine(ToFloat(old_latitude), ToFloat(old_longitude),
                      ToFloat(new_latitude), ToFloat(new_longitude))
            <= StationaryDeviation
         THEN S_stationary
         ELSE IF last_distance_m > distance_m THEN S_towards_home
         ELSE IF last_distance_m < distance_m THEN S_away_from_home
         ELSE S_stationary
    ELSE S_stationary

\* devicetracker_zone_name, from the tracker's state and its zone attribute
DevicetrackerZoneName(state, zone) ==
    LET zone_name_state == IF zone # None THEN ZoneName(S_zone_prefix \o zone)
                           ELSE None
        name == IF zone_name_state # None THEN zone_name_state ELSE state
    IN  IF name # None /\ Lower(name) = name THEN Title(name) ELSE name

\* what the entity knows of its place: the display value, the fields a
\* response fills, the zone, the name of the place before, and the extended
\* attributes
Known(e) ==
    [ k \in { "native_value", "street", "street_number", "city", "postal_code",
              "region", "country", "county", "formatted_address",
              "place_type", "place_name", "place_category",
              "place_neighbourhood", "formatted_place", "osm_id", "osm_type",
              "devicetracker_zone", "devicetracker_zone_name",
              "last_place_name", "wikidata_id", "osm_dict",
              "osm_details_dict", "wikidata_dict" } |-> e[k] ]

\* the local variables of do_update when it reaches the gate
LocalsAtGate(e, cfg, r, reason, clock) ==
    LET old_latitude == IF IsFloat(e.latitude) THEN e.latitude ELSE None
        old_longitude == IF IsFloat(e.longitude) THEN e.longitude ELSE None
        new_latitude == IF IsFloat(r.latitude) THEN r.latitude ELSE None
        new_longitude == IF IsFloat(r.longitude) THEN r.longitude ELSE None
        home_latitude == IF IsFloat(e.home_latitude) THEN e.home_latitude ELSE None
        home_longitude == IF IsFloat(e.home_longitude) THEN e.home_longitude ELSE None
        available == /\ new_latitude # None /\ new_longitude # None
                     /\ home_latitude # None /\ home_longitude # None
        has_old == old_latitude # None /\ old_longitude # None
        distance_m == Distance(ToFloat(new_latitude), ToFloat(new_longitude),
                               ToFloat(home_latitude), ToFloat(home_longitude))
    IN  [ FreshLocals EXCEPT
            !.reading = r,
            !.before = Known(e),
            !.reason = reason,
            !.entered = TRUE,
            !.now = clock,
            !.initial_at_gate = e.initial_update,
            !.updateskipped_at_gate = e.updateskipped,
            !.previous_state = PreviousState(e.native_value, cfg.show_time),
            !.old_latitude = old_latitude,
            !.old_longitude = old_longitude,
            !.new_latitude = new_latitude,
            !.new_longitude = new_longitude,
            !.gps_accuracy = IF IsFloat(r.gps_accuracy)
                             THEN ToFloat(r.gps_accuracy) ELSE 1,
            !.home_latitude = home_latitude,
            !.home_longitude = home_longitude,
            !.current_location = IF new_latitude # None /\ new_longitude # None
                                 THEN LocationString(new_latitude, new_longitude)
                                 ELSE None,
            !.previous_location = IF has_old
                                  THEN LocationString(old_latitude, old_longitude)
                                  ELSE None,
            !.prev_last_place_name = e.last_place_name,
            !.last_place_name = InitialLastPlaceName(e),
            !.proceed_with_update = available,
            !.distance_m = IF available THEN distance_m ELSE Unbound,
            !.distance_km = IF available THEN RoundKm(distance_m) ELSE Unbound,
            !.direction = IF available
                          THEN Direction(old_latitude, old_longitude,
                                         new_latitude, new_longitude,
                                         e.distance_m, distance_m)
                          ELSE Unbound,
            !.devicetracker_zone = IF available THEN r.state ELSE None,
            !.devicetracker_zone_name =
                IF available THEN DevicetrackerZoneName(r.state, r.zone) ELSE None,
            !.distance_traveled =
                IF available /\ has_old
                THEN Distance(ToFloat(new_latitude), ToFloat(new_longitude),
                              ToFloat(old_latitude), ToFloat(old_longitude))
                ELSE 0 ]

\* ------------------------------------------------------------------ variants of the gate

\* the outcome of the gate: whether the cycle proceeds, and the skip count
Outcome(proceed, updateskipped) ==
    [proceed |-> proceed, updateskipped |-> updateskipped]

\* the branches of the gate from the test of identical locations on, with
\* the least distance m (metres) that proceeds, whether exactly m metres
\* proceeds, whether a skipped update is counted, and whether a move of 1 m
\* or more proceeds after more than MaxSkipped skipped updates
MovementBranches(current_location, previous_location, distance_traveled, updateskipped, same_stops, after_skips, counts, at_least) ==
    IF same_stops /\ current_location = previous_location
    THEN Outcome(FALSE, updateskipped)
    ELSE IF after_skips /\ IntMetres(distance_traveled) > 0
                        /\ updateskipped > MaxSkipped
    THEN Outcome(TRUE, updateskipped)
    ELSE IF \/ IntMetres(distance_traveled) < MinDistanceM
            \/ (~at_least /\ IntMetres(distance_traveled) = MinDistanceM)
    THEN Outcome(FALSE, IF counts THEN updateskipped + 1 ELSE updateskipped)
    ELSE Outcome(TRUE, updateskipped)

\* a gate that does not count the update it skips
GateNotCounting(proceed_with_update, gps_accuracy, initial_update, current_location, previous_location, distance_traveled, updateskipped) ==
    IF ~proceed_with_update \/ gps_accuracy = 0
    THEN Outcome(FALSE, updateskipped)
    ELSE IF initial_update THEN Outcome(TRUE, updateskipped)
    ELSE MovementBranches(current_location, previous_location,
                          distance_traveled, updateskipped,
                          TRUE, TRUE, FALSE, TRUE)

\* a gate without the branch that lets a small move through after more than
\* MaxSkipped skipped updates
GateStarving(proceed_with_update, gps_accuracy, initial_update, current_location, previous_location, distance_traveled, updateskipped) ==
    IF ~proceed_with_update \/ gps_accuracy = 0
    THEN Outcome(FALSE, updateskipped)
    ELSE IF initial_update THEN Outcome(TRUE, updateskipped)
    ELSE MovementBranches(current_location, previous_location,
                          distance_traveled, updateskipped,
                          TRUE, FALSE, TRUE, TRUE)

\* a gate that proceeds only for more than MinDistanceM metres
GateStrictlyFarther(proceed_with_update, gps_accuracy, initial_update, current_location, previous_location, distance_traveled, updateskipped) ==
    IF ~proceed_with_update \/ gps_accuracy = 0
    THEN Outcome(FALSE, updateskipped)
    ELSE IF initial_update THEN Outcome(TRUE, updateskipped)
    ELSE MovementBranches(current_location, previous_location,
                          distance_traveled, updateskipped,
                          TRUE, TRUE, TRUE, FALSE)

\* a gate that tests the initial update before the GPS accuracy
GateInitialFirst(proceed_with_update, gps_accuracy, initial_update, current_location, previous_location, distance_traveled, updateskipped) ==
    IF ~proceed_with_update THEN Outcome(FALSE, updateskipped)
    ELSE IF initial_update THEN Outcome(TRUE, updateskipped)
    ELSE IF gps_accuracy = 0 THEN Outcome(FALSE, updateskipped)
    ELSE MovementBranches(current_location, previous_location,
                          distance_traveled, updateskipped,
                          TRUE, TRUE, TRUE, TRUE)

\* a gate without the test of identical locations
GateNotComparing(proceed_with_update, gps_accuracy, initial_update, current_location, previous_location, distance_traveled, updateskipped) ==
    IF ~proceed_with_update \/ gps_accuracy = 0
    THEN Outcome(FALSE, updateskipped)
    ELSE IF initial_update THEN Outcome(TRUE, updateskipped)
    ELSE MovementBranches(current_location, previous_location,
                          distance_traveled, updateskipped,
                          FALSE, TRUE, TRUE, TRUE)

\* a gate that does not look at whether the coordinates are available
GateNotChecking(proceed_with_update, gps_accuracy, initial_update, current_location, previous_location, distance_traveled, updateskipped) ==
    IF gps_accuracy = 0 THEN Outcome(FALSE, updateskipped)
    ELSE IF initial_update THEN Outcome(TRUE, updateskipped)
    ELSE MovementBranches(current_location, previous_location,
                          distance_traveled, updateskipped,
                          TRUE, TRUE, TRUE, TRUE)

\* a gate without the branch of the initial update
GateNotInitial(proceed_with_update, gps_accuracy, initial_update, current_location, previous_location, distance_traveled, updateskipped) ==
    IF ~proceed_with_update \/ gps_accuracy = 0
    THEN Outcome(FALSE, updateskipped)
    ELSE MovementBranches(current_location, previous_location,
                          distance_traveled, updateskipped,
                          TRUE, TRUE, TRUE, TRUE)

\* ------------------------------------------------------------------ the gate

\* a gate that lets a small move through one skipped update later
GateLateRelief(proceed_with_update, gps_accuracy, initial_update, current_location, previous_location, distance_traveled, updateskipped) ==
    IF ~proceed_with_update \/ gps_accuracy = 0
    THEN [proceed |-> FALSE, updateskipped |-> updateskipped]
    ELSE IF initial_update
    THEN [proceed |-> TRUE, updateskipped |-> updateskipped]
    ELSE IF current_location = previous_location
    THEN [proceed |-> FALSE, updateskipped |-> updateskipped]
    ELSE IF IntMetres(distance_traveled) > 0 /\ updateskipped > MaxSkipped + 1
    THEN [proceed |-> TRUE, updateskipped |-> updateskipped]
    ELSE IF IntMetres(distance_traveled) < MinDistanceM
    THEN [proceed |-> FALSE, updateskipped |-> updateskipped + 1]
    ELSE [proceed |-> TRUE, updateskipped |-> updateskipped]

\* the gate: the if / elif chain that settles proceed_with_update and the
\* skip count
Gate(proceed_with_update, gps_accuracy, initial_update, current_location, previous_location, distance_traveled, updateskipped) ==
    IF ~proceed_with_update
    THEN [proceed |-> FALSE, updateskipped |-> updateskipped]
    ELSE IF gps_accuracy = 0
    THEN [proceed |-> FALSE, updateskipped |-> updateskipped]
    ELSE IF initial_update
    THEN [proceed |-> TRUE, updateskipped |-> updateskipped]
    ELSE IF current_location = previous_location
    THEN [proceed |-> FALSE, updateskipped |-> updateskipped]
    ELSE IF IntMetres(distance_traveled) > 0 /\ updateskipped > MaxSkipped
    THEN [proceed |-> TRUE, updateskipped |-> updateskipped]
    ELSE IF IntMetres(distance_traveled) < MinDistanceM
    THEN [proceed |-> FALSE, updateskipped |-> updateskipped + 1]
    ELSE [proceed |-> TRUE, updateskipped |-> updateskipped]

\* "if proceed_with_update and devicetracker_zone:"
MeetsCriteria(proceed, devicetracker_zone) ==
    proceed /\ devicetracker_zone # None /\ devicetracker_zone # <<>>

\* the map link stored for the configured provider
MapLink(map_provider, current_location) ==
    IF map_provider = "google" THEN <<"maplink_google", current_location>>
    ELSE IF map_provider = "osm" THEN <<"maplink_osm", current_location>>
    ELSE <<"maplink_apple", current_location>>

\* the attributes after the gate let the cycle proceed, up to the request
ProceedAttributes(e, cfg, l) ==
    [ ResetAttributes(e) EXCEPT
        !.latitude = l.new_latitude,
        !.longitude = l.new_longitude,
        !.latitude_old = l.old_latitude,
        !.longitude_old = l.old_longitude,
        !.location_current = l.current_location,
        !.location_previous = l.previous_location,
        !.devicetracker_zone = l.devicetracker_zone,
        !.devicetracker_zone_name = l.devicetracker_zone_name,
        !.distance_km = l.distance_km,
        !.distance_m = l.distance_m,
        !.direction = l.direction,
        !.map_link = MapLink(cfg.map_provider, l.current_location) ]

\* do_update returned: its local variables are gone, what is kept is what
\* the call read and did
Returned(l) ==
    [ FreshLocals EXCEPT
        !.reading = l.reading,
        !.entered = l.entered,
        !.raised = l.raised,
        !.calls = l.calls,
        !.decoded = l.decoded,
        !.osm_decoded = l.osm_decoded,
        !.error_message = l.error_message,
        !.initial_at_gate = l.initial_at_gate,
        !.updateskipped_at_gate = l.updateskipped_at_gate,
        !.gps_accuracy = l.gps_accuracy,
        !.current_location = l.current_location,
        !.previous_location = l.previous_location,
        !.distance_traveled = l.distance_traveled,
        !.proceed_with_update = l.proceed_with_update,
        !.previous_state = l.previous_state,
        !.new_state = l.new_state,
        !.changed = l.changed,
        !.event = l.event ]

\* a gate after which a skipped cycle stores the position it read
AfterGateTracking(t, l, g) ==
    IF MeetsCriteria(g.proceed, l.devicetracker_zone)
    THEN /\ self' = ProceedAttributes([self EXCEPT !.updateskipped = g.updateskipped],
                                      config, l)
         /\ cyc' = [cyc EXCEPT ![t] = [l EXCEPT !.proceed_with_update = g.proceed,
                                                !.calls = <<"geocode">>]]
         /\ pc' = [pc EXCEPT ![t] = "geocode"]
    ELSE /\ self' = [self EXCEPT !.updateskipped = g.updateskipped,
                                 !.latitude = l.new_latitude,
                                 !.longitude = l.new_longitude]
         /\ cyc' = [cyc EXCEPT ![t] =
                       Returned([l EXCEPT !.proceed_with_update = g.proceed])]
         /\ pc' = [pc EXCEPT ![t] = "idle"]

\* do_update after the gate: the request is made, or the cycle ends
AfterGate(t, l, g) ==
    IF MeetsCriteria(g.proceed, l.devicetracker_zone)
    THEN /\ self' = ProceedAttributes([self EXCEPT !.updateskipped = g.updateskipped],
                                      config, l)
         /\ cyc' = [cyc EXCEPT ![t] = [l EXCEPT !.proceed_with_update = g.proceed,
                                                !.calls = <<"geocode">>]]
         /\ pc' = [pc EXCEPT ![t] = "geocode"]
    ELSE /\ self' = [self EXCEPT !.updateskipped = g.updateskipped]
         /\ cyc' = [cyc EXCEPT ![t] =
                       Returned([l EXCEPT !.proceed_with_update = g.proceed])]
         /\ pc' = [pc EXCEPT ![t] = "idle"]

\* do_update at the gate, with the local variables l
AtGate(t, l) ==
    AfterGate(t, l, Gate(l.proceed_with_update, l.gps_accuracy,
                         self.initial_update, l.current_location,
                         l.previous_location, l.distance_traveled,
                         self.updateskipped))

\* do_update from its first line to the reverse-geocode request (or to its
\* end, when the gate stops the cycle), run by thread t
DoUpdateStart(t, reason, r, clock) ==
    /\ AtGate(t, LocalsAtGate(self, config, r, reason, clock))
    /\ self'.updateskipped <= SkipCap
    /\ UNCHANGED <<config, entry, jsonfile>>

\* ------------------------------------------------------------------ the reverse-geocode response

\* keys of the "address" and "namedetails" dicts of a response
K_house_number == <<"h","o","u","s","e","_","n","u","m","b","e","r">>

K_road == <<"r","o","a","d">>

K_neighbourhood == <<"n","e","i","g","h","b","o","u","r","h","o","o","d">>

K_hamlet == <<"h","a","m","l","e","t">>

K_city == <<"c","i","t","y">>

K_town == <<"t","o","w","n">>

K_village == <<"v","i","l","l","a","g","e">>

K_township == <<"t","o","w","n","s","h","i","p">>

K_municipality == <<"m","u","n","i","c","i","p","a","l","i","t","y">>

K_city_district == <<"c","i","t","y","_","d","i","s","t","r","i","c","t">>

K_suburb == <<"s","u","b","u","r","b">>

K_state == <<"s","t","a","t","e">>

K_county == <<"c","o","u","n","t","y">>

K_country == <<"c","o","u","n","t","r","y">>

K_postcode == <<"p","o","s","t","c","o","d","e">>

K_name == <<"n","a","m","e">>

K_iso == <<"I","S","O","3","1","6","6","-","2","-","l","v","l","4">>

K_name_prefix == <<"n","a","m","e",":">>

S_yes == <<"y","e","s">>

S_house == <<"h","o","u","s","e">>

S_highway == <<"h","i","g","h","w","a","y">>

S_motorway == <<"m","o","t","o","r","w","a","y">>

S_unclassified == <<"u","n","c","l","a","s","s","i","f","i","e","d">>

S_city_of == <<"C","i","t","y"," ","o","f">>

S_driving == <<"D","r","i","v","i","n","g">>

O_driving == <<"d","r","i","v","i","n","g">>

O_do_not_show_not_home == <<"d","o","_","n","o","t","_","s","h","o","w","_","n","o","t","_","h","o","m","e">>

O_street_number == <<"s","t","r","e","e","t","_","n","u","m","b","e","r">>

O_county == <<"c","o","u","n","t","y">>

O_state == <<"s","t","a","t","e">>

O_region == <<"r","e","g","i","o","n">>

O_postal_code == <<"p","o","s","t","a","l","_","c","o","d","e">>

O_country == <<"c","o","u","n","t","r","y">>

O_formatted_address == <<"f","o","r","m","a","t","t","e","d","_","a","d","d","r","e","s","s">>

\* a dict value: the tagged function from its keys to its values
Dict(f) == <<"dict", f>>

\* the function of a dict value
Body(v) == v[2]

\* a dict with no entry
EmptyDict == Dict([k \in {} |-> None])

\* d[k] when k is a key of d, None otherwise (dict.get)
Get(d, k) == IF k \in DOMAIN d THEN d[k] ELSE None

\* the first of the keys that d holds, None when it holds none
RECURSIVE FirstKey(_, _)
FirstKey(d, ks) ==
    IF ks = <<>> THEN None
    ELSE IF Head(ks) \in DOMAIN d THEN Head(ks)
    ELSE FirstKey(d, Tail(ks))

\* ------------------------------------------------------------------ do_update: the parser

\* display_options: the options string split at "," with each token stripped
DisplayOptions(options) ==
    IF options # None
    THEN [i \in 1..Len(Split(options, <<",">>)) |-> Strip(Split(options, <<",">>)[i])]
    ELSE <<>>

\* a test for 'place' as one of the listed options
HasPlaceToken(options) == O_place \in Range(DisplayOptions(options))

\* "place" in str(self._options)
HasPlaceOption(options) == Contains(options, O_place)

\* place_type: the response's "type", or "addresstype" when it is "yes"
PlaceType(d) == IF d["type"] = S_yes THEN d["addresstype"] ELSE d["type"]

\* the last configured language that has a "name:<lang>" entry, None if none
RECURSIVE LastLanguageName(_, _)
LastLanguageName(namedetails, languages) ==
    IF languages = <<>> THEN None
    ELSE IF (K_name_prefix \o languages[Len(languages)]) \in DOMAIN namedetails
    THEN namedetails[K_name_prefix \o languages[Len(languages)]]
    ELSE LastLanguageName(namedetails, SubSeq(languages, 1, Len(languages) - 1))

\* the first configured language that has a "name:<lang>" entry, None if none
RECURSIVE FirstLanguageName(_, _)
FirstLanguageName(namedetails, languages) ==
    IF languages = <<>> THEN None
    ELSE IF (K_name_prefix \o Head(languages)) \in DOMAIN namedetails
    THEN namedetails[K_name_prefix \o Head(languages)]
    ELSE FirstLanguageName(namedetails, Tail(languages))

\* place_name: address[place_type], overridden by address[category], by
\* namedetails["name"], by the first namedetails["name:" + language]
PlaceName(d, language) ==
    LET place_type == PlaceType(d)
        by_type == IF place_type \in DOMAIN d["address"]
                   THEN d["address"][place_type] ELSE None
        by_category == IF "category" \in DOMAIN d
                          /\ d["category"] \in DOMAIN d["address"]
                       THEN d["address"][d["category"]] ELSE by_type
        by_name == IF K_name \in DOMAIN d["namedetails"]
                   THEN d["namedetails"][K_name] ELSE by_category
        by_language == IF language # None
                       THEN FirstLanguageName(d["namedetails"],
                                              Split(language, <<",">>))
                       ELSE None
    IN  IF by_language # None THEN by_language ELSE by_name

\* city: the first of six address keys, "City of X" rewritten to "X City"
City(address) ==
    LET k == FirstKey(address, <<K_city, K_town, K_village, K_township,
                                 K_municipality, K_city_district>>)
        city == IF k # None THEN address[k] ELSE None
    IN  IF city # None /\ StartsWith(city, S_city_of)
        THEN Drop(city, 8) \o <<" ","C","i","t","y">>
        ELSE city

\* the parser raises: a key the code indexes without testing is missing
ParseRaises(d, options) ==
    \/ "address" \notin DOMAIN d
    \/ /\ HasPlaceOption(options)
       /\ \/ "type" \notin DOMAIN d
          \/ (d["type"] = S_yes /\ "addresstype" \notin DOMAIN d)
          \/ "namedetails" \notin DOMAIN d
    \/ /\ K_iso \in DOMAIN d["address"]
       /\ Len(Split(d["address"][K_iso], <<"-">>)) < 2

\* the fields the parser extracts from a decoded response
Parse(d, options, language) ==
    LET address == d["address"]
        place == HasPlaceOption(options)
    IN  [ place_type |-> IF place THEN PlaceType(d) ELSE None,
          place_name |-> IF place THEN PlaceName(d, language) ELSE None,
          place_category |-> IF place /\ "category" \in DOMAIN d
                             THEN d["category"] ELSE None,
          place_neighbourhood |->
              IF K_neighbourhood \in DOMAIN address THEN address[K_neighbourhood]
              ELSE Get(address, K_hamlet),
          street_number |-> Get(address, K_house_number),
          street |-> Get(address, K_road),
          city |-> City(address),
          postal_town |-> IF K_suburb \in DOMAIN address THEN address[K_suburb]
                          ELSE Get(address, K_city_district),
          region |-> Get(address, K_state),
          state_abbr |-> IF K_iso \in DOMAIN address
                         THEN Upper(Split(address[K_iso], <<"-">>)[2])
                         ELSE None,
          county |-> Get(address, K_county),
          country |-> Get(address, K_country),
          postal_code |-> Get(address, K_postcode),
          formatted_address |-> Get(d, "display_name"),
          osm_id |-> Get(d, "osm_id"),
          osm_type |-> Get(d, "osm_type") ]

\* the attributes after the parsed fields are stored
StoreParsed(e, f) ==
    [ e EXCEPT
        !.place_type = f.place_type,
        !.place_category = f.place_category,
        !.place_neighbourhood = f.place_neighbourhood,
        !.place_name = f.place_name,
        !.street_number = f.street_number,
        !.street = f.street,
        !.city = f.city,
        !.postal_town = f.postal_town,
        !.region = f.region,
        !.state_abbr = f.state_abbr,
        !.county = f.county,
        !.country = f.country,
        !.postal_code = f.postal_code,
        !.formatted_address = f.formatted_address,
        !.mtime = MTimeStr,
        !.osm_id = IF f.osm_id # None THEN f.osm_id ELSE e.osm_id,
        !.osm_type = f.osm_type ]

\* a last_place_name that always takes the name of the place before
LastPlaceNameAlways(initial_update, last_place_name, stored_last_place_name, place_name, devicetracker_zone_name) ==
    IF initial_update THEN stored_last_place_name ELSE last_place_name

\* last_place_name after a parsed response
LastPlaceName(initial_update, last_place_name, stored_last_place_name, place_name, devicetracker_zone_name) ==
    IF initial_update THEN stored_last_place_name
    ELSE IF last_place_name = place_name
            \/ last_place_name = devicetracker_zone_name
    THEN stored_last_place_name
    ELSE last_place_name

\* ------------------------------------------------------------------ do_update: the display formatter

S_sep == <<",", " ">>

S_proposed == <<"P","r","o","p","o","s","e","d">>

S_construction == <<"C","o","n","s","t","r","u","c","t","i","o","n">>

S_township == <<" ","T","o","w","n","s","h","i","p">>

O_place_neighborhood == <<"p","l","a","c","e","_","n","e","i","g","h","b","o","r","h","o","o","d">>

S_region == <<"r","e","g","i","o","n">>

S_place_neighbourhood == <<"p","l","a","c","e","_","n","e","i","g","h","b","o","u","r","h","o","o","d">>

\* <<x>> when the condition holds, <<>> otherwise: list.append under an if
Item(cond, x) == IF cond THEN <<x>> ELSE <<>>

\* isDriving
IsDriving(e, display_options) ==
    /\ ~InZone(e.devicetracker_zone)
    /\ e.direction # S_stationary
    /\ (e.place_category = S_highway \/ e.place_type = S_motorway)
    /\ O_driving \in Range(display_options)

\* building formatted_place raises: .lower() of a place_category that is None
FormattedPlaceRaises(e) ==
    /\ ~InZone(e.devicetracker_zone)
    /\ e.place_name = None
    /\ e.place_type # None
    /\ Lower(e.place_type) # S_unclassified
    /\ e.place_category = None

\* formatted_place_array
FormattedPlaceArray(e, devicetracker_zone_name, display_options) ==
    IF ~InZone(e.devicetracker_zone)
    THEN LET by_type == /\ e.place_type # None
                        /\ Lower(e.place_type) # S_unclassified
                        /\ Lower(e.place_category) # S_highway
             by_category == /\ ~by_type
                            /\ e.place_category # None
                            /\ Lower(e.place_category) # S_highway
         IN  Item(IsDriving(e, display_options), S_driving)
             \o (IF e.place_name = None
                 THEN Item(by_type,
                           Strip(Replace(Replace(Title(e.place_type),
                                                 S_proposed, <<>>),
                                         S_construction, <<>>)))
                      \o Item(by_category, Strip(Title(e.place_category)))
                      \o Item(e.street # None /\ e.street_number = None,
                              Strip(e.street))
                      \o Item(e.street # None /\ e.street_number # None,
                              Strip(e.street_number) \o <<" ">> \o Strip(e.street))
                      \o Item(/\ e.place_type # None
                              /\ Lower(e.place_type) = S_house
                              /\ e.place_neighbourhood # None,
                              Strip(e.place_neighbourhood))
                 ELSE <<Strip(e.place_name)>>)
             \o Item(e.city # None, Strip(Replace(e.city, S_township, <<>>)))
             \o Item(e.city = None /\ e.county # None, Strip(e.county))
             \o Item(e.state_abbr # None, e.state_abbr)
    ELSE <<Strip(devicetracker_zone_name)>>

\* formatted_place
FormattedPlace(e, devicetracker_zone_name, display_options) ==
    Strip(Replace(Replace(Join(FormattedPlaceArray(e, devicetracker_zone_name,
                                                   display_options), S_sep),
                          <<"\n">>, <<" ">>),
                  <<" ", " ">>, <<" ">>))

\* a user_display that lists the values of city, street and zone in the order
\* of the options
UserDisplayAsListed(e, f, display_options) ==
    LET value(o) == IF o = O_city THEN e.city
                    ELSE IF o = O_street THEN f.street
                    ELSE IF o = O_zone THEN e.devicetracker_zone
                    ELSE None
    IN  SelectSeq([i \in 1..Len(display_options) |-> value(display_options[i])],
                  LAMBDA v : v # None)

\* user_display in the fixed order
UserDisplay(e, f, display_options) ==
    LET has(o) == o \in Range(display_options)
        place_opt == has(O_place)
        show_zone_name == /\ has(O_zone_name) /\ ~has(O_do_not_show_not_home)
                          /\ e.devicetracker_zone_name # None
        show_zone == /\ ~show_zone_name
                     /\ has(O_zone) /\ ~has(O_do_not_show_not_home)
                     /\ e.devicetracker_zone # None
    IN  Item(has(O_driving) /\ IsDriving(e, display_options), S_driving)
        \o Item(show_zone_name, e.devicetracker_zone_name)
        \o Item(show_zone, e.devicetracker_zone)
        \o Item(has(O_place_name) /\ f.place_name # None, f.place_name)
        \o Item(place_opt /\ f.place_name # None, f.place_name)
        \o Item(place_opt /\ f.place_category # None
                /\ Lower(f.place_category) # O_place, f.place_category)
        \o Item(place_opt /\ f.place_type # None
                /\ Lower(f.place_type) # S_yes, f.place_type)
        \o Item(place_opt /\ f.place_neighbourhood # None, f.place_neighbourhood)
        \o Item((place_opt \/ has(O_street_number)) /\ f.street_number # None,
                f.street_number)
        \o Item((place_opt \/ has(O_street)) /\ f.street # None, f.street)
        \o Item(has(O_city) /\ e.city # None, e.city)
        \o Item(has(O_county) /\ e.county # None, e.county)
        \o Item((has(O_state) \/ has(O_region)) /\ e.region # None, e.region)
        \o Item(has(O_postal_code) /\ e.postal_code # None, e.postal_code)
        \o Item(has(O_country) /\ e.country # None, e.country)
        \o Item(has(O_formatted_address) /\ e.formatted_address # None,
                e.formatted_address)

\* names of local variables of do_update, the keys of locals()
LocalNames ==
    { <<"p","l","a","c","e","_","t","y","p","e">>,
      <<"p","l","a","c","e","_","n","a","m","e">>,
      <<"p","l","a","c","e","_","c","a","t","e","g","o","r","y">>,
      <<"p","l","a","c","e","_","n","e","i","g","h","b","o","u","r","h","o","o","d">>,
      <<"s","t","r","e","e","t","_","n","u","m","b","e","r">>,
      <<"s","t","r","e","e","t">>,
      <<"c","i","t","y">>,
      <<"p","o","s","t","a","l","_","t","o","w","n">>,
      <<"r","e","g","i","o","n">>,
      <<"s","t","a","t","e","_","a","b","b","r">>,
      <<"c","o","u","n","t","y">>,
      <<"c","o","u","n","t","r","y">>,
      <<"p","o","s","t","a","l","_","c","o","d","e">>,
      <<"f","o","r","m","a","t","t","e","d","_","a","d","d","r","e","s","s">>,
      <<"t","a","r","g","e","t","_","o","p","t","i","o","n">>,
      <<"f","o","r","m","a","t","t","e","d","_","p","l","a","c","e">>,
      <<"o","s","m","_","i","d">>,
      <<"o","s","m","_","t","y","p","e">>,
      <<"w","i","k","i","d","a","t","a","_","i","d">> }

\* list.remove(x): the list without the first occurrence of x
RECURSIVE Remove(_, _)
Remove(items, x) ==
    IF items = <<>> THEN <<>>
    ELSE IF Head(items) = x THEN Tail(items)
    ELSE <<Head(items)>> \o Remove(Tail(items), x)

\* user_display as the do_not_reorder loop builds it: for each option that
\* names a local variable, the current target_option
RECURSIVE Reordered(_, _)
Reordered(display_options, target_option) ==
    IF display_options = <<>> THEN <<>>
    ELSE LET option == Head(display_options)
             target == IF option = O_place_neighborhood THEN S_place_neighbourhood
                       ELSE IF option = O_state THEN S_region
                       ELSE target_option
         IN  Item(option \in LocalNames, target)
             \o Reordered(Tail(display_options), target)

\* user_display, the list the display state is joined from outside a zone
FinalUserDisplay(e, f, display_options) ==
    IF O_do_not_reorder \in Range(display_options)
    THEN Reordered(Remove(display_options, O_do_not_reorder), None)
    ELSE UserDisplay(e, f, display_options)

\* selecting the display state raises: ", ".join of a list that holds None
NewStateRaises(d, e, f, display_options) ==
    /\ "error_message" \notin DOMAIN d
    /\ O_formatted_place \notin Range(display_options)
    /\ ~InZone(e.devicetracker_zone)
    /\ None \in Range(FinalUserDisplay(e, f, display_options))

\* a new_state that looks at the zone before the formatted_place option
NewStateZoneFirst(d, e, l, f, options, display_options) ==
    IF "error_message" \in DOMAIN d THEN d["error_message"]
    ELSE IF InZone(e.devicetracker_zone) THEN l.devicetracker_zone
    ELSE e.formatted_place

\* new_state, the display state of this cycle
NewState(d, e, l, f, options, display_options) ==
    LET from_place == IF HasPlaceOption(options)
                         /\ ~InZone(e.devicetracker_zone)
                         /\ f.place_name # S_house
                      THEN f.place_name ELSE l.new_state
        user_display == FinalUserDisplay(e, f, display_options)
    IN  IF "error_message" \in DOMAIN d THEN d["error_message"]
        ELSE IF O_formatted_place \in Range(display_options)
        THEN e.formatted_place
        ELSE IF ~InZone(e.devicetracker_zone)
        THEN IF user_display # <<>> THEN Join(user_display, S_sep) ELSE from_place
        ELSE IF O_zone_name \in Range(display_options)
                /\ e.devicetracker_zone_name # None
        THEN e.devicetracker_zone_name
        ELSE IF e.devicetracker_zone # None THEN l.devicetracker_zone
        ELSE from_place

\* a comparison of the display states that respects case
StateChangedByCase(previous_state, new_state, devicetracker_zone, initial_update) ==
    \/ /\ previous_state # None
       /\ new_state # None
       /\ Strip(previous_state) # Strip(new_state)
       /\ Strip(previous_state) # Strip(devicetracker_zone)
    \/ previous_state = None
    \/ new_state = None
    \/ initial_update

\* the display state changed: the condition under which the extended
\* requests are made, the display value is rewritten and the event is fired
StateChanged(previous_state, new_state, devicetracker_zone, initial_update) ==
    \/ /\ previous_state # None
       /\ new_state # None
       /\ Strip(Lower(previous_state)) # Strip(Lower(new_state))
       /\ Strip(Lower(Replace(previous_state, <<" ">>, <<>>)))
            # Strip(Lower(new_state))
       /\ Strip(Lower(previous_state)) # Strip(Lower(devicetracker_zone))
    \/ previous_state = None
    \/ new_state = None
    \/ initial_update

\* _attr_native_value as the cycle sets it from new_state
NativeValue(new_state, show_time, current_time) ==
    IF new_state # None
    THEN IF show_time
         THEN Take(new_state, MaxStateLen - TimeSuffixLen)
              \o <<" ","(","s","i","n","c","e"," ">> \o current_time \o <<")">>
         ELSE Take(new_state, MaxStateLen)
    ELSE None

\* ------------------------------------------------------------------ do_update: responses

\* a requests.Response: its status (2xx or not) and its text
Response(ok, text) == <<"response", ok, text>>

\* the text of a JSON document that denotes the value v
JsonText(v) == <<"json", v>>

\* bool(x) of None, a str or a dict
Truthy(v) == v # None /\ v # <<>> /\ v # EmptyDict

\* what the code decodes from a response: the decoded value, an empty dict
\* when there is no usable response or no text, None when the text is not JSON
Decoded(response) ==
    LET json_input == IF response # None /\ response[2]
                      THEN response[3] ELSE EmptyDict
    IN  IF Truthy(json_input)
        THEN IF Len(json_input) = 2 /\ json_input[1] = "json"
             THEN json_input[2] ELSE None
        ELSE EmptyDict

K_wikidata == <<"w","i","k","i","d","a","t","a">>

S_node == <<"n","o","d","e">>

S_way == <<"w","a","y">>

S_relation == <<"r","e","l","a","t","i","o","n">>

\* wikidata_id, from the decoded details
WikidataId(osm_details_dict) ==
    IF /\ Truthy(osm_details_dict)
       /\ "extratags" \in DOMAIN Body(osm_details_dict)
       /\ K_wikidata \in DOMAIN Body(osm_details_dict)["extratags"]
    THEN Body(osm_details_dict)["extratags"][K_wikidata]
    ELSE None

\* ------------------------------------------------------------------ do_update: the snapshot

\* the attributes extra_state_attributes returns when they are not None
OptionalAttributes ==
    { "street_number", "street", "city", "postal_town", "postal_code",
      "region", "state_abbr", "country", "county", "formatted_address",
      "place_type", "place_name", "place_category", "place_neighbourhood",
      "formatted_place", "latitude_old", "longitude_old", "latitude",
      "longitude", "devicetracker_zone", "devicetracker_zone_name", "mtime",
      "last_place_name", "location_current", "location_previous",
      "home_latitude", "home_longitude", "direction", "map_link", "osm_id",
      "osm_type", "wikidata_id", "osm_dict", "osm_details_dict",
      "wikidata_dict" }

\* the attributes that always hold a number
NumericAttributes == { "distance_km", "distance_m" }

\* Places.extra_state_attributes
ExtraStateAttributes(e) ==
    [ k \in {a \in OptionalAttributes : e[a] # None} \cup NumericAttributes
        |-> e[k] ]

\* the snapshot file after do_update dumps the attributes: json.dump stops
\* part-way at a value that is not JSON serializable
WriteSnapshot(e) ==
    IF e.mtime = MTimeObj
    THEN PartialFile
    ELSE <<"file", [state |-> e.native_value,
                    attributes |-> ExtraStateAttributes(e)]>>

\* json.load of the snapshot file in Places.__init__: the name / value pairs
\* of the document, none when the file is absent or is not a whole JSON
\* document (the exception is logged)
JsonLoad(file) ==
    IF file = NoFile \/ file = PartialFile
    THEN [k \in {} |-> None]
    ELSE [k \in {"state"} \cup DOMAIN file[2].attributes |->
             IF k = "state" THEN file[2].state ELSE file[2].attributes[k]]

\* the attributes that import_attributes reads from the snapshot
ImportedAttributes ==
    { "street_number", "street", "city", "postal_town", "postal_code",
      "region", "state_abbr", "country", "county", "formatted_address",
      "place_type", "place_name", "place_category", "place_neighbourhood",
      "formatted_place", "latitude_old", "longitude_old", "latitude",
      "longitude", "devicetracker_zone", "devicetracker_zone_name",
      "distance_km", "distance_m", "mtime", "last_place_name",
      "location_current", "location_previous", "direction", "map_link",
      "osm_id", "osm_type", "wikidata_id", "osm_dict", "osm_details_dict",
      "wikidata_dict" }

\* Places.import_attributes
ImportAttributes(e, json_attr) ==
    IF DOMAIN json_attr = {}
    THEN e
    ELSE [ k \in DOMAIN e |->
             IF k = "initial_update" THEN FALSE
             ELSE IF k = "native_value" /\ "state" \in DOMAIN json_attr
             THEN json_attr["state"]
             ELSE IF k \in ImportedAttributes /\ k \in DOMAIN json_attr
             THEN json_attr[k]
             ELSE e[k] ]

\* ------------------------------------------------------------------ responses of the services

\* decoded bodies of reverse-geocode responses
BodyPark == Dict([ type |-> <<"p","a","r","k">>, category |-> <<"l","e","i","s","u","r","e">>,
           address |-> (<<"p","a","r","k">> :> <<"P","k">>) @@ (K_road :> <<"R","d">>) @@ (K_city :> <<"C","t">>)
                       @@ (K_iso :> <<"U","S","-","I","L">>),
           namedetails |-> (K_name :> <<"P","k">>),
           display_name |-> <<"P","k",","," ","C","t">>, osm_id |-> <<"7">>, osm_type |-> S_way ])

BodyParkLower == Dict([ type |-> <<"p","a","r","k">>, category |-> <<"l","e","i","s","u","r","e">>,
           address |-> (<<"p","a","r","k">> :> <<"p","k">>) @@ (K_road :> <<"R","d">>) @@ (K_city :> <<"C","t">>)
                       @@ (K_iso :> <<"U","S","-","I","L">>),
           namedetails |-> (K_name :> <<"p","k">>),
           display_name |-> <<"p","k",","," ","C","t">>, osm_id |-> <<"7">>, osm_type |-> S_way ])

\* the park under a name that differs in case and by a space
BodyParkSpaced == Dict([ type |-> <<"p","a","r","k">>, category |-> <<"l","e","i","s","u","r","e">>,
           address |-> (<<"p","a","r","k">> :> <<"p"," ","k">>) @@ (K_road :> <<"R","d">>) @@ (K_city :> <<"C","t">>)
                       @@ (K_iso :> <<"U","S","-","I","L">>),
           namedetails |-> (K_name :> <<"p"," ","k">>),
           display_name |-> <<"p"," ","k",","," ","C","t">>, osm_id |-> <<"7">>, osm_type |-> S_way ])

\* a road without a name of its own and without osm_id / osm_type
BodyRoad ==
    Dict([ type |-> <<"r","e","s","i","d","e","n","t","i","a","l">>, category |-> S_highway,
           address |-> (K_road :> <<"R","d">>),
           namedetails |-> [k \in {} |-> None],
           display_name |-> <<"R","d">> ])

\* an error payload
BodyError ==
    Dict([ error_message |-> <<"E","r","r">>,
           address |-> [k \in {} |-> None] ])

GeocodeBodies == {BodyPark, BodyParkSpaced, BodyRoad}

\* the park with an entry of the address under its type and under its
\* category, a name, a French name and a German name
BodyNamedPark ==
    Dict([ type |-> <<"p","a","r","k">>, category |-> <<"l","e","i","s","u","r","e">>,
           address |-> (<<"p","a","r","k">> :> <<"T","y">>)
                       @@ (<<"l","e","i","s","u","r","e">> :> <<"C","a">>),
           namedetails |-> (K_name :> <<"C","e","n","t","r","a","l"," ","P","a","r","k">>)
                           @@ ((K_name_prefix \o <<"f","r">>) :> <<"P","a","r","c"," ","C","e","n","t","r","a","l">>)
                           @@ ((K_name_prefix \o <<"d","e">>) :> <<"Z","e","n","t","r","a","l","p","a","r","k">>),
           osm_id |-> <<"7">>, osm_type |-> S_way ])

\* the park with a name and a French name
BodyFrenchPark ==
    Dict([ type |-> <<"p","a","r","k">>, category |-> <<"l","e","i","s","u","r","e">>,
           address |-> (<<"p","a","r","k">> :> <<"T","y">>),
           namedetails |-> (K_name :> <<"C","e","n","t","r","a","l"," ","P","a","r","k">>)
                           @@ ((K_name_prefix \o <<"f","r">>) :> <<"P","a","r","c"," ","C","e","n","t","r","a","l">>),
           osm_id |-> <<"7">>, osm_type |-> S_way ])

\* the park with entries of the address under its type and its category only
BodyParkByCategory ==
    Dict([ type |-> <<"p","a","r","k">>, category |-> <<"l","e","i","s","u","r","e">>,
           address |-> (<<"p","a","r","k">> :> <<"T","y">>)
                       @@ (<<"l","e","i","s","u","r","e">> :> <<"C","a">>),
           namedetails |-> [k \in {} |-> None],
           osm_id |-> <<"7">>, osm_type |-> S_way ])

\* the park with an entry of the address under its type only
BodyParkByType ==
    Dict([ type |-> <<"p","a","r","k">>, category |-> <<"l","e","i","s","u","r","e">>,
           address |-> (<<"p","a","r","k">> :> <<"T","y">>),
           namedetails |-> [k \in {} |-> None],
           osm_id |-> <<"7">>, osm_type |-> S_way ])

\* a building of type "yes", with an entry of the address under its
\* addresstype
BodyBuilding ==
    Dict([ type |-> S_yes, addresstype |-> <<"b","u","i","l","d","i","n","g">>,
           category |-> <<"b","u","i","l","d","i","n","g">>,
           address |-> (<<"b","u","i","l","d","i","n","g">> :> <<"B","d">>),
           namedetails |-> [k \in {} |-> None],
           osm_id |-> <<"7">>, osm_type |-> S_way ])

NamedBodies ==
    {BodyNamedPark, BodyFrenchPark, BodyParkByCategory, BodyParkByType, BodyBuilding}

\* the park without its "address"
BodyNoAddress ==
    Dict([ type |-> <<"p","a","r","k">>, category |-> <<"l","e","i","s","u","r","e">>,
           namedetails |-> (K_name :> <<"P","k">>),
           osm_id |-> <<"7">>, osm_type |-> S_way ])

\* an unnamed way without its "type"
BodyNoType ==
    Dict([ category |-> S_highway,
           address |-> (K_road :> <<"R","d">>),
           namedetails |-> [k \in {} |-> None],
           osm_id |-> <<"7">>, osm_type |-> S_way ])

\* an unnamed way without its "category"
BodyNoCategory ==
    Dict([ type |-> <<"r","e","s","i","d","e","n","t","i","a","l">>,
           address |-> (K_road :> <<"R","d">>),
           namedetails |-> [k \in {} |-> None],
           osm_id |-> <<"7">>, osm_type |-> S_way ])

\* the park without its "namedetails"
BodyNoNamedetails ==
    Dict([ type |-> <<"p","a","r","k">>, category |-> <<"l","e","i","s","u","r","e">>,
           address |-> (<<"p","a","r","k">> :> <<"P","k">>),
           osm_id |-> <<"7">>, osm_type |-> S_way ])

\* the park with an osm_type that is not node, way or relation
BodyOddType ==
    Dict([ type |-> <<"p","a","r","k">>, category |-> <<"l","e","i","s","u","r","e">>,
           address |-> (<<"p","a","r","k">> :> <<"P","k">>),
           namedetails |-> (K_name :> <<"P","k">>),
           osm_id |-> <<"7">>, osm_type |-> <<"a","r","e","a">> ])

\* an error payload and nothing else
BodyErrorOnly == Dict([ error_message |-> <<"E","r","r">> ])

\* bodies that lack one of the keys the parser reads
PartialBodies ==
    {BodyNoAddress, BodyNoType, BodyNoCategory, BodyNoNamedetails, BodyOddType}

\* what requests.get(osm_url) can yield: an exception (None), a non-2xx
\* response, a body that is not JSON, an empty body, a JSON body
GeocodeResponses ==
    { None, Response(FALSE, <<"<">>), Response(TRUE, <<"<">>),
      Response(TRUE, <<>>), Response(TRUE, JsonText(EmptyDict)) }
    \cup { Response(TRUE, JsonText(b)) : b \in GeocodeBodies }

DetailsWithWikidata ==
    Dict([ extratags |-> (K_wikidata :> <<"Q","1">>) ])

DetailsPlain == Dict([ extratags |-> [k \in {} |-> None] ])

DetailsResponses ==
    { None,
      Response(TRUE, JsonText(DetailsWithWikidata)),
      Response(TRUE, JsonText(DetailsPlain)) }

WikidataResponses ==
    { None, Response(TRUE, JsonText(Dict([ entities |-> <<"Q","1">> ]))) }

\* ------------------------------------------------------------------ do_update: after the request

\* an exception leaves do_update: the attributes stay as written so far
Raise(t, e, l) ==
    /\ self' = e
    /\ cyc' = [cyc EXCEPT ![t] = Returned([l EXCEPT !.raised = TRUE])]
    /\ pc' = [pc EXCEPT ![t] = "idle"]
    /\ UNCHANGED <<config, entry, jsonfile, throttled>>

\* an end of the cycle that leaves the initial-update flag as it is
FinishNotClearing(t, e, l) ==
    /\ self' = e
    /\ jsonfile' = WriteSnapshot(e)
    /\ cyc' = [cyc EXCEPT ![t] = Returned(l)]
    /\ pc' = [pc EXCEPT ![t] = "idle"]
    /\ UNCHANGED <<config, entry, throttled>>

\* the last lines of a cycle that proceeded: the initial-update flag is
\* cleared and the snapshot is written
Finish(t, e, l) ==
    LET e1 == [e EXCEPT !.initial_update = FALSE]
    IN  /\ self' = e1
        /\ jsonfile' = WriteSnapshot(e1)
        /\ cyc' = [cyc EXCEPT ![t] = Returned(l)]
        /\ pc' = [pc EXCEPT ![t] = "idle"]
        /\ UNCHANGED <<config, entry, throttled>>

\* the event data that carry the display value and the place name
Event(e, l) == <<"event", l.previous_state, l.new_state, e.place_name>>

\* the end of the branch taken when the display state changed: the display
\* value is rewritten and the event is built and fired
FinishChanged(t, e, l) ==
    LET e1 == [e EXCEPT !.native_value =
                   NativeValue(l.new_state, config.show_time, l.now)]
    IN  IF config.extended_attr /\ l.wikidata_dict = Unbound
        THEN Raise(t, e1, l)
        ELSE Finish(t, e1, [l EXCEPT !.event = Event(e1, l)])

\* a details request that does not depend on the extended attributes
RequestsDetailsAlways(extended_attr, osm_id, osm_type) ==
    osm_id # None /\ osm_type # None

\* the details request is made: extended attributes, osm_id and osm_type
RequestsDetails(extended_attr, osm_id, osm_type) ==
    extended_attr /\ osm_id # None /\ osm_type # None

\* after new_state is selected: the comparison with the previous display
\* state, then the details request or the end of the cycle
AfterSelect(t, l, f, e, new_state) ==
    IF ~StateChanged(l.previous_state, new_state, l.devicetracker_zone,
                     e.initial_update)
    THEN Finish(t, e, [l EXCEPT !.new_state = new_state])
    ELSE IF RequestsDetails(config.extended_attr, f.osm_id, f.osm_type)
    THEN IF Lower(f.osm_type) \notin {S_node, S_way, S_relation}
         THEN Raise(t, e, [l EXCEPT !.new_state = new_state, !.changed = TRUE,
                                    !.osm_details_dict = EmptyDict])
         ELSE /\ self' = e
              /\ cyc' = [cyc EXCEPT ![t] =
                            [l EXCEPT !.new_state = new_state, !.changed = TRUE,
                                      !.osm_details_dict = EmptyDict,
                                      !.calls = Append(l.calls, "details")]]
              /\ pc' = [pc EXCEPT ![t] = "details"]
              /\ UNCHANGED <<config, entry, jsonfile, throttled>>
    ELSE FinishChanged(t, e, [l EXCEPT !.new_state = new_state, !.changed = TRUE,
                                       !.osm_details_dict =
                                           IF config.extended_attr
                                           THEN EmptyDict ELSE Unbound])

\* after formatted_place is stored: new_state is selected
AfterFormat(t, l, d, opts, f, e) ==
    IF NewStateRaises(d, e, f, opts) THEN Raise(t, e, l)
    ELSE AfterSelect(t, l, f,
                     IF config.extended_attr
                     THEN [e EXCEPT !.osm_dict = Dict(d)] ELSE e,
                     NewState(d, e, l, f, config.options, opts))

\* after the parsed fields and last_place_name are stored: formatted_place
AfterStore(t, l, d, opts, f, e) ==
    IF FormattedPlaceRaises(e) THEN Raise(t, e, l)
    ELSE AfterFormat(t, l, d, opts, f,
                     [e EXCEPT !.formatted_place =
                          FormattedPlace(e, l.devicetracker_zone_name, opts)])

\* after the parser: the fields are stored and last_place_name is settled
AfterParse(t, l, d, opts, f, lpn) ==
    AfterStore(t, [l EXCEPT !.place_name = f.place_name, !.osm_id = f.osm_id,
                            !.osm_type = f.osm_type, !.wikidata_id = None,
                            !.last_place_name = lpn],
               d, opts, f, [StoreParsed(self, f) EXCEPT !.last_place_name = lpn])

\* the parser, on the decoded response d
AtParse(t, l, d, opts, f) ==
    AfterParse(t, l, d, opts, f,
               LastPlaceName(self.initial_update, l.last_place_name,
                             self.last_place_name, f.place_name,
                             l.devicetracker_zone_name))

\* from the decoded response to the details request or to the end
AfterGeocode(t, l, d) ==
    IF ParseRaises(d, config.options) THEN Raise(t, self, l)
    ELSE AtParse(t, l, d, DisplayOptions(config.options),
                 Parse(d, config.options, config.language))

\* requests.get(osm_url) returns to thread t
GeocodeReturn(t, response) ==
    /\ pc[t] = "geocode"
    /\ IF Truthy(Decoded(response))
       THEN AfterGeocode(t, [cyc[t] EXCEPT !.osm_decoded = Decoded(response),
                                           !.decoded = TRUE,
                                           !.error_message =
                                               Get(Body(Decoded(response)),
                                                   "error_message")],
                         Body(Decoded(response)))
       ELSE Finish(t, self, [cyc[t] EXCEPT !.osm_decoded = Decoded(response)])

\* requests.get(osm_details_url) returns to thread t
DetailsReturn(t, response) ==
    /\ pc[t] = "details"
    /\ LET osm_details_dict == Decoded(response)
           wikidata_id == WikidataId(osm_details_dict)
           e == [self EXCEPT !.osm_details_dict = osm_details_dict,
                             !.wikidata_id = wikidata_id]
           l == [cyc[t] EXCEPT !.osm_details_dict = osm_details_dict,
                               !.wikidata_id = wikidata_id,
                               !.wikidata_dict = EmptyDict]
       IN  IF wikidata_id # None
           THEN /\ self' = e
                /\ cyc' = [cyc EXCEPT ![t] =
                              [l EXCEPT !.calls = Append(l.calls, "wikidata")]]
                /\ pc' = [pc EXCEPT ![t] = "wikidata"]
                /\ UNCHANGED <<config, entry, jsonfile, throttled>>
           ELSE FinishChanged(t, e, l)

\* requests.get(wikidata_url) returns to thread t
WikidataReturn(t, response) ==
    /\ pc[t] = "wikidata"
    /\ LET wikidata_dict == Decoded(response)
       IN  FinishChanged(t, [self EXCEPT !.wikidata_dict = wikidata_dict],
                         [cyc[t] EXCEPT !.wikidata_dict = wikidata_dict])

\* ------------------------------------------------------------------ entry points

\* the handler returns without calling do_update
NotSet(t, r) ==
    /\ cyc' = [cyc EXCEPT ![t] = [FreshLocals EXCEPT !.reading = r]]
    /\ UNCHANGED <<config, entry, self, pc, jsonfile>>

\* Places.tsc_update, run in an executor thread on a tracker state change
TscUpdate(t, r, clock) ==
    /\ pc[t] = "idle"
    /\ IF IsDevicetrackerSet(r)
       THEN DoUpdateStart(t, "Track State Change", r, clock)
       ELSE NotSet(t, r)
    /\ UNCHANGED throttled

\* Places.async_update, at most once per THROTTLE_INTERVAL; do_update runs
\* in an executor thread
AsyncUpdate(t, r, clock) ==
    /\ pc[t] = "idle"
    /\ ~throttled
    /\ throttled' = TRUE
    /\ IF IsDevicetrackerSet(r)
       THEN DoUpdateStart(t, "Scan Interval", r, clock)
       ELSE NotSet(t, r)

\* Home Assistant restarts between two cycles: the entity is created again
\* from its configuration entry and the snapshot file
Restart ==
    /\ \A t \in Threads : pc[t] = "idle"
    /\ self' = ImportAttributes(NewEntity(config), JsonLoad(jsonfile))
    /\ cyc' = [t \in Threads |-> FreshLocals]
    /\ throttled' = FALSE
    /\ UNCHANGED <<config, entry, pc, jsonfile>>

\* THROTTLE_INTERVAL has passed since the last async_update
ThrottleExpires ==
    /\ throttled
    /\ throttled' = FALSE
    /\ UNCHANGED <<config, entry, self, pc, cyc, jsonfile>>

\* ------------------------------------------------------------------ the options flow

\* keys of the data of a config entry: two texts and a number
ConfKeys == {"name", "language", "map_zoom"}

\* the values a key of the data can take; <<>> is the blank string
ConfValues(k) ==
    IF k = "name" THEN {<<>>, <<"A">>, <<"B">>}
    ELSE IF k = "language" THEN {<<>>, <<"e","n">>}
    ELSE {Num(0)}

\* what a user can submit: a value for each key of a subset of the keys
UserInputs ==
    UNION { { Dict(f) : f \in { g \in [S -> UNION {ConfValues(k) : k \in ConfKeys}] :
                                  \A k \in S : g[k] \in ConfValues(k) } } :
            S \in SUBSET ConfKeys }

\* the config entry as the config flow created it, before any options flow
NewEntry ==
    [ data |-> Dict([k \in {"name", "map_zoom"} |->
                        IF k = "name" THEN <<"A">> ELSE Num(0)]),
      user_input |-> None,
      data_before |-> None,
      calls |-> <<>>,
      result |-> None ]

\* a stored data that keeps the keys submitted blank
MergedKeepingBlanks(data, user_input) ==
    [ k \in DOMAIN data \cup DOMAIN user_input |->
        IF k \in DOMAIN user_input THEN user_input[k] ELSE data[k] ]

\* the data the options flow stores: the data of the entry overridden by the
\* submitted values, without the keys whose submitted value is a blank string
MergedData(data, user_input) ==
    LET blank == { k \in DOMAIN user_input : user_input[k] = <<>> }
    IN  [ k \in (DOMAIN data \cup DOMAIN user_input) \ blank |->
            IF k \in DOMAIN user_input THEN user_input[k] ELSE data[k] ]

\* PlacesOptionsFlowHandler.async_step_init without user input: the form
ShowForm ==
    /\ entry' = [entry EXCEPT !.user_input = None,
                              !.data_before = entry.data,
                              !.calls = <<>>,
                              !.result = [type |-> "form", data |-> None]]
    /\ UNCHANGED <<config, self, pc, cyc, jsonfile, throttled>>

\* PlacesOptionsFlowHandler.async_step_init(user_input): the entry is updated
\* and reloaded, and the flow ends
SubmitOptions(user_input) ==
    /\ entry' = [entry EXCEPT
                    !.data = Dict(MergedData(Body(entry.data), Body(user_input))),
                    !.user_input = user_input,
                    !.data_before = entry.data,
                    !.calls = <<"async_update_entry", "async_reload">>,
                    !.result = [type |-> "create_entry", data |-> EmptyDict]]
    /\ UNCHANGED <<config, self, pc, cyc, jsonfile, throttled>>

\* ------------------------------------------------------------------ specifications

\* the entity right after Places.__init__ found no snapshot to import
InitOf(configs) ==
    /\ config \in configs
    /\ self = NewEntity(config)
    /\ pc = [t \in Threads |-> "idle"]
    /\ cyc = [t \in Threads |-> FreshLocals]
    /\ jsonfile = NoFile
    /\ throttled = FALSE
    /\ entry = NewEntry

\* the inputs of a specification: the readings of the tracker and the
\* responses of the three services
Inputs(readings, geocode, details, wikidata) ==
    [readings |-> readings, geocode |-> geocode, details |-> details,
     wikidata |-> wikidata]

\* the steps of thread t
Step(t, in) ==
    \/ \E r \in in.readings, clock \in Clocks : TscUpdate(t, r, clock)
    \/ \E r \in in.readings, clock \in Clocks : AsyncUpdate(t, r, clock)
    \/ \E response \in in.geocode : GeocodeReturn(t, response)
    \/ \E response \in in.details : DetailsReturn(t, response)
    \/ \E response \in in.wikidata : WikidataReturn(t, response)

\* every reading of the tracker, with a lookup that fails or finds the park
GateInputs ==
    Inputs(Readings, {None, Response(TRUE, JsonText(BodyPark))},
           {Response(TRUE, JsonText(DetailsWithWikidata))},
           {Response(TRUE, JsonText(Dict([ entities |-> <<"Q","1">> ])))})

\* one cycle at a time: every cycle runs in the same thread
Init == InitOf({ConfigPlace, ConfigNoHome})

Next == Step("t1", GateInputs) \/ ThrottleExpires

Spec == Init /\ [][Next]_vars

\* readings 10 m apart, with every response of the three services
ResponseInputs ==
    Inputs(FarReadings, GeocodeResponses, DetailsResponses, WikidataResponses)

InitResponses == InitOf({ConfigPlaceName, ConfigFormattedPlace})

NextResponses == Step("t1", ResponseInputs) \/ ThrottleExpires

SpecResponses == InitResponses /\ [][NextResponses]_vars

\* two executor threads: a cycle can start while another one waits for a
\* response
ConcInputs ==
    Inputs({ Reading(la, Num(0), Num(5), [state |-> S_not_home, zone |-> None]) :
               la \in {Num(0), Num(100)} },
           {Response(TRUE, JsonText(BodyPark))},
           {Response(TRUE, JsonText(DetailsWithWikidata))},
           {Response(TRUE, JsonText(Dict([ entities |-> <<"Q","1">> ])))})

InitConc == InitOf({ConfigPlace})

NextConc == (\E t \in Threads : Step(t, ConcInputs)) \/ ThrottleExpires

SpecConc == InitConc /\ [][NextConc]_vars

\* a tracker that moves 10 m at a time outside every zone, with the lookups
\* failing in every way: no response, a non-2xx status, a body that is not
\* JSON, a body that lacks a key, an error payload
FailureInputs ==
    Inputs({ Reading(la, Num(0), Num(5), [state |-> S_not_home, zone |-> None]) :
               la \in {Num(0), Num(100)} },
           { None, Response(FALSE, <<"<">>), Response(TRUE, <<"<">>) }
             \cup { Response(TRUE, JsonText(b)) :
                      b \in {BodyPark, BodyError, BodyErrorOnly} \cup PartialBodies },
           { None, Response(FALSE, <<"<">>), Response(TRUE, <<"<">>),
             Response(TRUE, JsonText(DetailsWithWikidata)) },
           { None, Response(TRUE, <<"<">>),
             Response(TRUE, JsonText(Dict([ entities |-> <<"Q","1">> ]))) })

InitFailures == InitOf({ConfigPlace, ConfigZone})

NextFailures == Step("t1", FailureInputs) \/ ThrottleExpires

SpecFailures == InitFailures /\ [][NextFailures]_vars

\* a tracker that moves 0.5 m, 9.5 m and 10 m, with a lookup that fails or
\* finds the park, and restarts of Home Assistant
RestartInputs ==
    Inputs({ Reading(la, Num(0), Num(5), [state |-> S_not_home, zone |-> None]) :
               la \in Latitudes },
           {None, Response(TRUE, JsonText(BodyPark))},
           {None, Response(TRUE, JsonText(DetailsWithWikidata))},
           {Response(TRUE, JsonText(Dict([ entities |-> <<"Q","1">> ])))})

InitRestart == InitOf({ConfigPlace})

NextRestart == Step("t1", RestartInputs) \/ ThrottleExpires \/ Restart

SpecRestart == InitRestart /\ [][NextRestart]_vars

\* a tracker that moves along the parallel of its home zone, at 60 degrees
\* north: 150 m and 300 m east of it, and 300 m west of it
TravelInputs ==
    Inputs({ Reading(Num(60 * DegreeLen), Num(lo), Num(5),
                     [state |-> S_not_home, zone |-> None]) :
               lo \in {0, 3000, 6000, 0 - 6000} },
           {None, Response(TRUE, JsonText(BodyPark))},
           {Response(TRUE, JsonText(DetailsWithWikidata))},
           {Response(TRUE, JsonText(Dict([ entities |-> <<"Q","1">> ])))})

InitTravel == InitOf({ConfigNorth})

NextTravel == Step("t1", TravelInputs) \/ ThrottleExpires

SpecTravel == InitTravel /\ [][NextTravel]_vars

\* a tracker that moves 10 m at a time, in and out of the home zone, with a
\* lookup that fails, finds the park or finds the road, under options that
\* hold city, street and zone in two orders and under do_not_reorder
OptionInputs ==
    Inputs({ Reading(la, Num(0), Num(5), ts) :
               la \in {Num(0), Num(100)},
               ts \in { [state |-> S_not_home, zone |-> None],
                        [state |-> S_home, zone |-> S_home] } },
           {None, Response(TRUE, JsonText(BodyPark)),
            Response(TRUE, JsonText(BodyRoad))},
           {Response(TRUE, JsonText(DetailsWithWikidata))},
           {Response(TRUE, JsonText(Dict([ entities |-> <<"Q","1">> ])))})

InitOptions == InitOf({ConfigCityStreet, ConfigStreetCity, ConfigKeepOrder})

NextOptions == Step("t1", OptionInputs) \/ ThrottleExpires

SpecOptions == InitOptions /\ [][NextOptions]_vars

\* the same tracker and lookups under the options 'zone_name, place',
\* 'formatted_place' and 'zone'
InitSelect == InitOf({ConfigPlace, ConfigFormattedPlace, ConfigZone})

NextSelect == Step("t1", OptionInputs) \/ ThrottleExpires

SpecSelect == InitSelect /\ [][NextSelect]_vars

\* a tracker that moves 10 m at a time outside every zone, with responses
\* that name the place in every way, under no language, under 'fr' and under
\* 'de,fr'
NameInputs ==
    Inputs({ Reading(la, Num(0), Num(5), [state |-> S_not_home, zone |-> None]) :
               la \in {Num(0), Num(100)} },
           { Response(TRUE, JsonText(b)) : b \in NamedBodies },
           {Response(TRUE, JsonText(DetailsWithWikidata))},
           {Response(TRUE, JsonText(Dict([ entities |-> <<"Q","1">> ])))})

InitNames == InitOf({ConfigPlaceName, ConfigFrench, ConfigGermanFrench})

NextNames == Step("t1", NameInputs) \/ ThrottleExpires

SpecNames == InitNames /\ [][NextNames]_vars

\* the options flow of one entry, opened and submitted any number of times
InitFlow == InitOf({ConfigPlace})

NextFlow == ShowForm \/ \E user_input \in UserInputs : SubmitOptions(user_input)

SpecFlow == InitFlow /\ [][NextFlow]_vars

\* a tracker outside every zone, once with an empty state, with a lookup
\* that fails, returns nothing, finds the park or lacks its address, and
\* restarts of Home Assistant
LifecycleInputs ==
    Inputs({ Reading(la, Num(0), Num(5), [state |-> S_not_home, zone |-> None]) :
               la \in {Num(0), Num(100)} }
           \cup { Reading(Num(100), Num(0), Num(5), [state |-> <<>>, zone |-> None]) },
           { None, Response(TRUE, <<>>), Response(TRUE, JsonText(BodyPark)),
             Response(TRUE, JsonText(BodyNoAddress)) },
           {Response(TRUE, JsonText(DetailsWithWikidata))},
           {Response(TRUE, JsonText(Dict([ entities |-> <<"Q","1">> ])))})

InitLifecycle == InitOf({ConfigPlace})

NextLifecycle == Step("t1", LifecycleInputs) \/ ThrottleExpires \/ Restart

SpecLifecycle == InitLifecycle /\ [][NextLifecycle]_vars

\* ------------------------------------------------------------------ properties

\* what the last call of tsc_update / async_update read and did, when every
\* cycle runs in the one thread
Last == cyc["t1"]

\* no cycle is under way
Idle == pc["t1"] = "idle"

\* a distance of n metres, in the unit of distance_traveled
Metres(n) == n * 10

\* the current coordinates of the reading r and the home coordinates are
\* numbers
CoordinatesAvailable(r) ==
    /\ IsNum(r.latitude) /\ IsNum(r.longitude)
    /\ IsNum(config.home_latitude) /\ IsNum(config.home_longitude)

\* the last call was a non-initial update with coordinates available, GPS
\* accuracy not 0 and a location string that differs from the previous one
MovedNonInitial ==
    /\ Last.entered
    /\ ~Last.initial_at_gate
    /\ CoordinatesAvailable(Last.reading)
    /\ Last.gps_accuracy # 0
    /\ Last.current_location # Last.previous_location

\* the last call made the reverse-geocode request, and the skip count is 0
ProceededAndReset == Last.calls # <<>> /\ self.updateskipped = 0

\* C1: a non-initial update with coordinates available, GPS accuracy not 0
\* and a new location string, at a skip count <= 3 and a movement < 10 m,
\* makes no geocode request and leaves the skip count exactly one higher.
C1_SmallMoveIsSkipped ==
    (/\ MovedNonInitial
     /\ Last.updateskipped_at_gate <= 3
     /\ Last.distance_traveled < Metres(10))
    => (/\ Last.calls = <<>>
        /\ Idle
        /\ self.updateskipped = Last.updateskipped_at_gate + 1)

\* C1, reached: the fourth small move in a row was skipped and counted
C1_Witness ==
    /\ MovedNonInitial
    /\ Last.updateskipped_at_gate = 3
    /\ Last.distance_traveled < Metres(10)
    /\ Last.calls = <<>>
    /\ self.updateskipped = 4

\* C2 as stated: a non-initial update with coordinates available, GPS
\* accuracy not 0 and a new location string, at a skip count > 3, proceeds
\* for every movement < 10 m (also below 1 m), and the skip count is 0 after.
C2_AnySmallMoveProceedsAfterSkips ==
    (/\ MovedNonInitial
     /\ Last.updateskipped_at_gate > 3
     /\ Last.distance_traveled < Metres(10))
    => ProceededAndReset

\* C2, amended: at a skip count > 3, a movement of at least 1 m and less
\* than 10 m read from a tracker whose state is not empty proceeds to the
\* geocode request, and the skip count is 0 after.
C2_MoveOfOneMetreProceedsAfterSkips ==
    (/\ MovedNonInitial
     /\ Last.updateskipped_at_gate > 3
     /\ Last.distance_traveled >= Metres(1)
     /\ Last.distance_traveled < Metres(10)
     /\ Last.reading.state # <<>>)
    => ProceededAndReset

\* C2, reached: a move of 9.5 m went through after four skipped updates
C2_Witness ==
    /\ MovedNonInitial
    /\ Last.updateskipped_at_gate = 4
    /\ Last.distance_traveled = 95
    /\ Last.reading.state # <<>>
    /\ ProceededAndReset

\* C3 as stated: with coordinates available, GPS accuracy not 0 and a new
\* location string, a movement >= 10 m proceeds for every skip count, and
\* the skip count is 0 after.
C3_LargeMoveProceeds ==
    (/\ Last.entered
     /\ CoordinatesAvailable(Last.reading)
     /\ Last.gps_accuracy # 0
     /\ Last.current_location # Last.previous_location
     /\ Last.distance_traveled >= Metres(10))
    => ProceededAndReset

\* C3, amended: a movement >= 10 m read from a tracker whose state is not
\* empty proceeds to the geocode request for every skip count, and the skip
\* count is 0 after.
C3_LargeMoveWithStateProceeds ==
    (/\ Last.entered
     /\ CoordinatesAvailable(Last.reading)
     /\ Last.gps_accuracy # 0
     /\ Last.current_location # Last.previous_location
     /\ Last.distance_traveled >= Metres(10)
     /\ Last.reading.state # <<>>)
    => ProceededAndReset

\* C3, reached: a move of exactly 10 m proceeded after skipped updates
C3_Witness ==
    /\ Last.entered
    /\ ~Last.initial_at_gate
    /\ Last.gps_accuracy # 0
    /\ Last.distance_traveled = Metres(10)
    /\ Last.updateskipped_at_gate > 0
    /\ Last.reading.state # <<>>
    /\ ProceededAndReset

\* C4: a call that reads GPS accuracy 0 makes no geocode request and changes
\* no attribute of the entity nor the snapshot, for every movement, every
\* skip count and every value of the initial-update flag.
C4_AccuracyZeroChangesNothing ==
    [][ (/\ Idle
         /\ cyc'["t1"].entered
         /\ cyc'["t1"].gps_accuracy = 0)
        => (/\ pc'["t1"] = "idle"
            /\ cyc'["t1"].calls = <<>>
            /\ self' = self
            /\ jsonfile' = jsonfile) ]_vars

\* C4, reached: a reading with accuracy 0, 10 m from the stored position of
\* a non-initial entity, was turned down
C4_Witness ==
    /\ Idle
    /\ Last.entered
    /\ Last.gps_accuracy = 0
    /\ ~Last.initial_at_gate
    /\ Last.distance_traveled >= Metres(10)
    /\ Last.calls = <<>>

\* C5: a non-initial update with GPS accuracy not 0 whose location string
\* equals the stored one makes no geocode request and leaves the skip count
\* as it was, for every skip count (also above 3).
C5_SameLocationIsIgnored ==
    (/\ Last.entered
     /\ ~Last.initial_at_gate
     /\ Last.gps_accuracy # 0
     /\ Last.current_location # None
     /\ Last.current_location = Last.previous_location)
    => (/\ Last.calls = <<>>
        /\ Idle
        /\ self.updateskipped = Last.updateskipped_at_gate)

\* C5, reached: the stored location was read again at a skip count above 3
C5_Witness ==
    /\ Last.entered
    /\ ~Last.initial_at_gate
    /\ Last.gps_accuracy # 0
    /\ Last.current_location # None
    /\ Last.current_location = Last.previous_location
    /\ Last.updateskipped_at_gate > 3
    /\ Last.calls = <<>>
    /\ self.updateskipped = Last.updateskipped_at_gate

\* C6: when the latitude or longitude of the tracker or of home is absent
\* or is not a number, the call does not pass the gate, makes no request and
\* raises nothing, whatever the accuracy, skip count, initial flag, options.
C6_UnavailableCoordinatesStop ==
    (Last.reading # NoReading /\ ~CoordinatesAvailable(Last.reading))
    => (/\ Idle
        /\ Last.calls = <<>>
        /\ ~Last.raised
        /\ (Last.entered => ~Last.proceed_with_update))

\* C6, reached: do_update ran on a latitude that is not a number, on an
\* entity whose home coordinates are numbers
C6_Witness ==
    /\ Last.entered
    /\ Last.reading.latitude # None
    /\ ~IsNum(Last.reading.latitude)
    /\ IsNum(config.home_latitude)
    /\ ~Last.proceed_with_update
    /\ Last.calls = <<>>
    /\ ~Last.raised

\* the last call was a first update (initial_update still set) that read
\* current and home coordinates that are numbers
FirstWithCoordinates ==
    /\ Last.entered
    /\ Last.initial_at_gate
    /\ CoordinatesAvailable(Last.reading)

\* the cycle of the last call is over and its geocode response decoded
GeocodeSucceeded == Idle /\ Last.decoded /\ ~Last.raised

\* C7 as stated: the first do_update of an entity without snapshot, with
\* valid current and home coordinates, always makes the geocode request,
\* whatever the movement and the GPS accuracy (also accuracy 0), and the
\* display value is not null after a cycle whose geocode call succeeded.
C7_FirstUpdateAlwaysProceeds ==
    FirstWithCoordinates
    => (/\ Last.calls # <<>>
        /\ (GeocodeSucceeded => self.native_value # None))

\* C7, amended: the first do_update with valid coordinates, a GPS accuracy
\* that is not 0 and a tracker state that is not empty makes the geocode
\* request whatever the movement, and the display value is not null after a
\* cycle whose geocode call succeeded and whose display state is not null.
C7_FirstUpdateProceedsUnlessAccuracyZero ==
    (/\ FirstWithCoordinates
     /\ Last.gps_accuracy # 0
     /\ Last.reading.state # <<>>)
    => (/\ Last.calls # <<>>
        /\ (GeocodeSucceeded /\ Last.new_state # None
             => self.native_value # None))

\* C7, reached: a first update went through and its cycle ended with a
\* display value
C7_Witness ==
    /\ FirstWithCoordinates
    /\ Last.gps_accuracy # 0
    /\ Last.reading.state # <<>>
    /\ Last.calls # <<>>
    /\ GeocodeSucceeded
    /\ Last.new_state # None
    /\ self.native_value # None

\* C8: at most one do_update cycle of the entity is in flight at any time:
\* the cycles started by tsc_update and async_update never overlap.
C8_OneCycleInFlight ==
    Cardinality({t \in Threads : pc[t] # "idle"}) <= 1

\* s in lower case without its spaces
Squeezed(s) == Lower(Replace(s, <<" ">>, <<>>))

\* the previous and the new display value are equal under a comparison that
\* ignores case and spaces (two null values are equal), or the previous one
\* is the raw zone id up to case
DisplayTie(previous, new, zone) ==
    \/ previous = None /\ new = None
    \/ previous # None /\ new # None /\ Squeezed(previous) = Squeezed(new)
    \/ previous # None /\ zone # None /\ Lower(previous) = Lower(zone)

\* the display value differs as the cycle decides it: a value is null, or
\* it is the first cycle, or neither the previous value nor the previous
\* value without its spaces equals the new value, up to case and outer
\* whitespace, and the previous value is not the raw zone id
DisplayDiffers(previous, new, zone, initial) ==
    \/ initial
    \/ previous = None
    \/ new = None
    \/ /\ Strip(Lower(previous)) # Strip(Lower(new))
       /\ Strip(Squeezed(previous)) # Strip(Lower(new))
       /\ Strip(Lower(previous)) # Strip(Lower(zone))

\* the last cycle fired no event, made no details or knowledge-base request
\* and left the display value as it was
NothingPublished ==
    /\ Last.event = None
    /\ Len(Last.calls) <= 1
    /\ PreviousState(self.native_value, config.show_time) = Last.previous_state

C11_ReturnsNormally == ~Last.raised

\* C12: whenever the decoded reverse-geocode body carries an error_message,
\* the cycle completes and the display state is that error message verbatim,
\* also for a payload without address, type or namedetails.
C12_ErrorMessageIsDisplayed ==
    (Idle /\ Last.error_message # None)
    => (/\ ~Last.raised
        /\ Last.new_state = Last.error_message
        /\ self.native_value = Last.error_message)

\* the fields of the entity that a reverse-geocode response fills
GeocodeFields ==
    { "street", "street_number", "city", "postal_code", "region", "country",
      "county", "formatted_address", "place_type", "place_name", "osm_id",
      "osm_type" }

\* the fields that neither _reset_attributes nor a failed lookup writes
KeptFields ==
    { "native_value", "last_place_name", "place_category",
      "place_neighbourhood", "formatted_place" }

\* the "address" key that each of these fields is read from
AddressKey ==
    [ street |-> K_road, street_number |-> K_house_number,
      postal_code |-> K_postcode, region |-> K_state, country |-> K_country,
      county |-> K_county ]

\* the step in which a cycle that made the reverse-geocode request ends
CycleEnds == pc["t1"] # "idle" /\ pc'["t1"] = "idle"

\* the step in which the reverse-geocode request of a cycle fails
LookupFails == pc["t1"] = "geocode" /\ pc'["t1"] = "idle" /\ ~cyc'["t1"].decoded

\* C13, as stated: a failed or partial reverse geocode never blanks a field
\* that was known.  When the lookup of a cycle fails every field that a
\* response fills holds the value it had when the cycle began, and when the
\* response decoded no such field that was known is null.
C13_FailedLookupKeepsFields ==
    [][ /\ LookupFails
           => \A k \in GeocodeFields : self'[k] = cyc["t1"].before[k]
        /\ (CycleEnds /\ cyc'["t1"].decoded)
           => \A k \in GeocodeFields :
                  cyc["t1"].before[k] # None => self'[k] # None ]_vars

\* C13, as the code does it: the cycle resets the fields that a response
\* fills before it makes the request.  When the lookup fails every such
\* field is null, whatever it held, and the display value, last_place_name,
\* place_category, place_neighbourhood and formatted_place hold the value
\* they had when the cycle began; when the response decoded, a field whose
\* key the "address" of the response lacks is null.
C13_FailedLookupBlanksFields ==
    [][ /\ LookupFails
           => /\ \A k \in GeocodeFields : self'[k] = None
              /\ \A k \in KeptFields : self'[k] = cyc["t1"].before[k]
        /\ (CycleEnds /\ cyc'["t1"].decoded /\ self'.osm_dict # None)
           => \A k \in DOMAIN AddressKey :
                  AddressKey[k] \notin DOMAIN Body(self'.osm_dict)["address"]
                  => self'[k] = None ]_vars

\* C13, reached: the lookup of a cycle failed after an earlier cycle had
\* found the park; the place is blank, formatted_place is not
C13_Witness ==
    /\ Idle
    /\ Last.calls = <<"geocode">>
    /\ ~Last.decoded /\ ~Last.raised
    /\ self.place_name = None /\ self.street = None
    /\ self.formatted_place # None
    /\ self.last_place_name # None

\* the step in which the reverse-geocode response of a cycle is decoded
LookupDecodes ==
    pc["t1"] = "geocode" /\ pc'["t1"] # "geocode" /\ cyc'["t1"].decoded

\* the name of the place the entity was at when the cycle began: the zone
\* name inside a zone, the place name outside
NameBefore ==
    IF InZone(cyc["t1"].before.devicetracker_zone)
    THEN cyc["t1"].before.devicetracker_zone_name
    ELSE cyc["t1"].before.place_name

\* the cycle began and ends inside the same zone
StaysInZone ==
    /\ InZone(cyc["t1"].before.devicetracker_zone)
    /\ self'.devicetracker_zone = cyc["t1"].before.devicetracker_zone

\* last_place_name changes only to the name of the place before, and only
\* when that name is neither the new place name nor the new zone name
ChangesToNameBefore ==
    self'.last_place_name # cyc["t1"].before.last_place_name
    => /\ self'.last_place_name = NameBefore
       /\ NameBefore # self'.place_name
       /\ NameBefore # self'.devicetracker_zone_name

\* C14, as stated: in a gate-passing cycle with a successful geocode,
\* last_place_name keeps its value whenever the entity stays inside the same
\* zone or the new place name equals the previous place name, and changes
\* only to the name of the previous location, when that differs from both
\* the new place name and the new zone name.
C14_LastPlaceNamePersists ==
    [][ LookupDecodes
        => /\ StaysInZone
              => self'.last_place_name = cyc["t1"].before.last_place_name
           /\ (/\ self'.place_name # None
               /\ self'.place_name = cyc["t1"].before.place_name)
              => self'.last_place_name = cyc["t1"].before.last_place_name
           /\ ChangesToNameBefore ]_vars

\* C14, as the code does it: last_place_name keeps its value whenever the
\* name of the place before (the zone name inside a zone, the place name
\* outside) equals the new place name or the new zone name, and so whenever
\* the entity stays inside the same zone; it changes only to the name of the
\* place before.  A place name that is the same before and after does not
\* keep it when the cycle began inside a zone.
C14_LastPlaceNameFollowsNameBefore ==
    [][ LookupDecodes
        => /\ StaysInZone
              => self'.last_place_name = cyc["t1"].before.last_place_name
           /\ (\/ NameBefore = self'.place_name
               \/ NameBefore = self'.devicetracker_zone_name)
              => self'.last_place_name = cyc["t1"].before.last_place_name
           /\ ChangesToNameBefore ]_vars

\* C14, reached: the entity left the home zone for the park, and
\* last_place_name is the name of the zone
C14_Witness ==
    /\ Idle
    /\ Last.decoded /\ ~Last.raised
    /\ ~InZone(self.devicetracker_zone)
    /\ self.place_name = <<"P","k">>
    /\ self.last_place_name = <<"H","o","m","e">>

\* C15: the skip count is part of the persisted state of the entity: the
\* entity that a restart creates from the snapshot has the skip count the
\* entity had before the restart.
C15_SkipCountSurvivesRestart ==
    [][ Restart => self'.updateskipped = self.updateskipped ]_vars

\* the fields of the place record
RecordFields == DOMAIN NewEntity(config) \ {"initial_update", "updateskipped"}

\* the entity that a restart would create from the snapshot file
Reloaded == ImportAttributes(NewEntity(config), JsonLoad(jsonfile))

\* C17: at the end of every cycle that passed the gate, whether its lookup
\* succeeded or failed, the snapshot is written completely, loading it into
\* a new entity reproduces the display value and every field of the record,
\* and saving the loaded entity yields the same snapshot.
C17_SnapshotRoundTrip ==
    (Idle /\ Last.calls # <<>> /\ ~Last.raised)
    => /\ jsonfile # PartialFile /\ jsonfile # NoFile
       /\ \A k \in RecordFields : Reloaded[k] = self[k]
       /\ WriteSnapshot(Reloaded) = jsonfile

\* C16: in every reachable state every optional field of the place record,
\* the display value included, is null or a non-empty value: no field holds
\* an empty string or an empty payload.
C16_NoEmptyValue ==
    \A k \in OptionalAttributes \cup {"native_value"} :
        self[k] # <<>> /\ self[k] # EmptyDict

\* the step in which a cycle passes the gate and makes its request
CycleProceeds == pc["t1"] = "idle" /\ pc'["t1"] = "geocode"

\* the entity holds a position from an earlier cycle
HasOldPosition == IsFloat(self.latitude) /\ IsFloat(self.longitude)

\* the distance between the position the entity holds and the position the
\* cycle stores, in decimetres
Deviation ==
    Distance(ToFloat(self.latitude), ToFloat(self.longitude),
             ToFloat(self'.latitude), ToFloat(self'.longitude))

\* C18: in a cycle with coordinates available the direction is "stationary"
\* when there is no old position or the deviation between the old and the
\* new position is at most 0.2 km; otherwise it is "towards home" when the
\* new distance from home is smaller than the one the last accepted cycle
\* stored, "away from home" when it is larger, "stationary" when equal.
C18_DirectionOfTravel ==
    [][ CycleProceeds
        => self'.direction =
              IF ~HasOldPosition \/ Deviation <= StationaryDeviation
              THEN S_stationary
              ELSE IF self'.distance_m < self.distance_m THEN S_towards_home
              ELSE IF self'.distance_m > self.distance_m THEN S_away_from_home
              ELSE S_stationary ]_vars

\* ------------------------------------------------------------------ the order of the options

\* every options list that holds the tokens of display_options, each once
Orderings(display_options) ==
    { p \in [1..Len(display_options) -> Range(display_options)] :
        Range(p) = Range(display_options) }

\* the response the cycle decoded in this step
DecodedBody == Body(cyc'["t1"].osm_decoded)

\* the step in which a cycle selects its display state: the response decoded
\* and nothing raised up to the comparison with the previous display state
SelectsState ==
    /\ LookupDecodes
    /\ ~ParseRaises(DecodedBody, config.options)
    /\ ~NewStateRaises(DecodedBody, self',
                       Parse(DecodedBody, config.options, config.language),
                       DisplayOptions(config.options))

\* the display state and formatted_place this step would yield under the
\* options list p
UnderOptions(p) ==
    LET options == Join(p, <<",", " ">>)
        f == Parse(DecodedBody, options, config.language)
    IN  [ new_state |-> NewState(DecodedBody, self', cyc["t1"], f, options,
                                 DisplayOptions(options)),
          formatted_place |-> FormattedPlace(self',
                                             cyc["t1"].devicetracker_zone_name,
                                             DisplayOptions(options)) ]

\* the display state by the fixed priority order of the options zone, street
\* and city, outside a zone
ZoneStreetCity ==
    Join(<<self'.devicetracker_zone>>
         \o (IF self'.street # None THEN <<self'.street>> ELSE <<>>)
         \o (IF self'.city # None THEN <<self'.city>> ELSE <<>>),
         <<",", " ">>)

\* C19: when the option do_not_reorder is absent, the display state and
\* formatted_place a cycle computes do not depend on the order of the tokens
\* of the options string: they equal what every other ordering of the same
\* tokens yields, and outside a zone the display state lists the values in
\* the fixed priority order (zone, then street, then city).
C19_OrderOfOptionsIsIrrelevant ==
    [][ SelectsState /\ O_do_not_reorder \notin Range(DisplayOptions(config.options))
        => /\ \A p \in Orderings(DisplayOptions(config.options)) :
                /\ cyc'["t1"].new_state = UnderOptions(p).new_state
                /\ self'.formatted_place = UnderOptions(p).formatted_place
           /\ ~InZone(self'.devicetracker_zone)
                => cyc'["t1"].new_state = ZoneStreetCity ]_vars

\* C19 witness: a cycle outside every zone ended with the road and the city
\* displayed in priority order, under the options that list city first
C19_Witness ==
    /\ Idle /\ Last.decoded /\ ~Last.raised
    /\ config = ConfigCityStreet
    /\ ~InZone(self.devicetracker_zone)
    /\ self.street # None /\ self.city # None
    /\ Last.new_state = Join(<<self.devicetracker_zone, self.street, self.city>>,
                             <<",", " ">>)

\* C20, as stated: with do_not_reorder and outside every zone the cycle
\* completes without error and the display state holds the values of the
\* recognised tokens in their order of appearance: city, then street.
C20_KeepsOrderOfAppearance ==
    Idle /\ Last.decoded /\ O_do_not_reorder \in Range(DisplayOptions(config.options))
         /\ ~InZone(self.devicetracker_zone)
         /\ self.city # None /\ self.street # None
    => /\ ~Last.raised
       /\ Last.new_state = Join(<<self.city, self.street>>, <<",", " ">>)

\* ------------------------------------------------------------------ formatted_place and the display state

\* formatted_place_array as stated: "Driving", then the place name or else
\* the title-cased place_type or place_category, the street and the
\* neighbourhood of a house, then the city or else the county, then the
\* state abbreviation
StatedPlaceArray(e, display_options) ==
    LET fallback ==
            (IF e.place_type # None
             THEN <<Strip(Replace(Replace(Title(e.place_type), S_proposed, <<>>),
                                  S_construction, <<>>))>>
             ELSE IF e.place_category # None
             THEN <<Strip(Title(e.place_category))>>
             ELSE <<>>)
            \o (IF e.street = None THEN <<>>
                ELSE IF e.street_number = None THEN <<Strip(e.street)>>
                ELSE <<Strip(e.street_number) \o <<" ">> \o Strip(e.street)>>)
            \o (IF e.place_type # None /\ Lower(e.place_type) = S_house
                   /\ e.place_neighbourhood # None
                THEN <<Strip(e.place_neighbourhood)>> ELSE <<>>)
    IN  (IF e.direction # S_stationary
            /\ (e.place_category = S_highway \/ e.place_type = S_motorway)
            /\ O_driving \in Range(display_options)
         THEN <<S_driving>> ELSE <<>>)
        \o (IF e.place_name # None THEN <<Strip(e.place_name)>> ELSE fallback)
        \o (IF e.city # None THEN <<Strip(Replace(e.city, S_township, <<>>))>>
            ELSE IF e.county # None THEN <<Strip(e.county)>>
            ELSE <<>>)
        \o (IF e.state_abbr # None THEN <<e.state_abbr>> ELSE <<>>)

\* formatted_place as stated
StatedFormattedPlace(e, devicetracker_zone_name, display_options) ==
    IF InZone(e.devicetracker_zone) THEN Strip(devicetracker_zone_name)
    ELSE Strip(Replace(Replace(Join(StatedPlaceArray(e, display_options),
                                    <<",", " ">>),
                               <<"\n">>, <<" ">>),
                       <<" ", " ">>, <<" ">>))

\* the step in which a cycle has parsed a decoded response
LookupParsed == LookupDecodes /\ ~ParseRaises(DecodedBody, config.options)

\* C21, as stated: formatted_place is computed on every successful geocode:
\* the zone's display name inside a zone, and outside a zone 'Driving', the
\* place name or its fallback, the city or county and the state abbreviation,
\* joined by ', '.
C21_FormattedPlaceAsStated ==
    [][ LookupParsed
        => /\ ~FormattedPlaceRaises(self')
           /\ self'.formatted_place =
                 StatedFormattedPlace(self', cyc["t1"].devicetracker_zone_name,
                                      DisplayOptions(config.options)) ]_vars

\* the step in which a cycle selects its display state from a response
\* without error_message
SelectsFromPlace == SelectsState /\ "error_message" \notin DOMAIN DecodedBody

\* C22: after a successful geocode without error_message the display state
\* is formatted_place verbatim when the option formatted_place is set, inside
\* and outside zones; otherwise, inside a zone, it is the zone's display name
\* when the option zone_name is set and the raw zone id in every other case.
C22_SelectionOfDisplayState ==
    [][ SelectsFromPlace
        => IF O_formatted_place \in Range(DisplayOptions(config.options))
           THEN cyc'["t1"].new_state = self'.formatted_place
           ELSE InZone(self'.devicetracker_zone)
                => cyc'["t1"].new_state =
                      IF O_zone_name \in Range(DisplayOptions(config.options))
                      THEN self'.devicetracker_zone_name
                      ELSE self'.devicetracker_zone ]_vars

\* C22 witness: a cycle inside the home zone ended after a decoded response
\* under the option formatted_place, and displays formatted_place, which is
\* the display name of the zone and not its id
C22_Witness ==
    /\ Idle /\ Last.decoded /\ ~Last.raised /\ Last.error_message = None
    /\ config = ConfigFormattedPlace
    /\ InZone(self.devicetracker_zone)
    /\ Last.new_state = self.formatted_place
    /\ Last.new_state # self.devicetracker_zone

\* ------------------------------------------------------------------ the name of the place

\* the sources of place_name that the response d holds, in the order of the
\* override chain: address[place_type], address[category],
\* namedetails["name"], and "name:<lang>" for the first configured language
\* that has an entry
NameSources(d, language) ==
    LET place_type == IF d["type"] = S_yes THEN d["addresstype"] ELSE d["type"]
        languages == IF language = None THEN <<>> ELSE Split(language, <<",">>)
        has(i) == (K_name_prefix \o languages[i]) \in DOMAIN d["namedetails"]
        firsts == { i \in 1..Len(languages) :
                     has(i) /\ \A j \in 1..(i - 1) : ~has(j) }
    IN  (IF place_type \in DOMAIN d["address"]
         THEN <<d["address"][place_type]>> ELSE <<>>)
        \o (IF "category" \in DOMAIN d /\ d["category"] \in DOMAIN d["address"]
            THEN <<d["address"][d["category"]]>> ELSE <<>>)
        \o (IF K_name \in DOMAIN d["namedetails"]
            THEN <<d["namedetails"][K_name]>> ELSE <<>>)
        \o (IF firsts # {}
            THEN <<d["namedetails"][K_name_prefix
                                    \o languages[CHOOSE i \in firsts : TRUE]]>>
            ELSE <<>>)

\* C23: place_name is the last source present in the chain address[place_type]
\* < address[category] < namedetails['name'] < namedetails['name:' + lang],
\* where among the configured languages the first one that has an entry
\* counts; place_type is the response's 'type', or its 'addresstype' when the
\* type is 'yes'.
C23_PlaceNameOverrideChain ==
    [][ LookupParsed /\ HasPlaceOption(config.options)
        => LET sources == NameSources(DecodedBody, config.language)
           IN  /\ self'.place_name =
                     IF sources = <<>> THEN None ELSE sources[Len(sources)]
               /\ self'.place_type =
                     IF DecodedBody["type"] = S_yes
                     THEN DecodedBody["addresstype"] ELSE DecodedBody["type"] ]_vars

\* C23 witness: under the languages 'de,fr' a cycle ended with the French
\* name of the park, 'Parc Central', from a response that held the name
\* 'Central Park' and no German name
C23_Witness ==
    /\ Idle /\ Last.decoded /\ ~Last.raised
    /\ config = ConfigGermanFrench
    /\ Last.osm_decoded = BodyFrenchPark
    /\ self.place_name = <<"P","a","r","c"," ","C","e","n","t","r","a","l">>

\* ------------------------------------------------------------------ the options flow

\* the last step of the options flow was a submission
Submitted == entry.user_input # None

\* C24: submitting the options flow updates the config entry exactly once and
\* then reloads it; the stored data is the data the entry held overridden by
\* the submitted values, without the keys submitted with a blank string, and
\* the flow ends with a create_entry result with empty data.
C24_OptionsFlowStoresSubmission ==
    Submitted
    => LET before == Body(entry.data_before)
           input == Body(entry.user_input)
           data == Body(entry.data)
       IN  /\ entry.calls = <<"async_update_entry", "async_reload">>
           /\ \A k \in DOMAIN input :
                 IF input[k] = <<>> THEN k \notin DOMAIN data
                 ELSE k \in DOMAIN data /\ data[k] = input[k]
           /\ \A k \in DOMAIN before \ DOMAIN input :
                 k \in DOMAIN data /\ data[k] = before[k]
           /\ DOMAIN data \subseteq DOMAIN before \cup DOMAIN input
           /\ entry.result = [type |-> "create_entry", data |-> EmptyDict]

\* C24 witness: a submission that gave a new name, a language and a blank
\* value: the name is overridden, the number is kept from the entry
C24_Witness ==
    /\ Submitted
    /\ Body(entry.data_before) = [k \in {"name", "map_zoom"} |->
                                     IF k = "name" THEN <<"A">> ELSE Num(0)]
    /\ Body(entry.user_input) = [k \in {"name", "language"} |->
                                    IF k = "name" THEN <<"B">> ELSE <<>>]
    /\ Body(entry.data) = [k \in {"name", "map_zoom"} |->
                              IF k = "name" THEN <<"B">> ELSE Num(0)]

\* ------------------------------------------------------------------ starvation

\* C25, as stated: the skip count never exceeds 4 in any reachable state.
C25_SkipCountNeverExceedsFour == self.updateskipped <= MaxSkipped + 1

\* the last call read a valid position at least 1 m and less than 10 m from
\* the last accepted one, from a tracker whose state is not empty
Crept ==
    /\ MovedNonInitial
    /\ Last.distance_traveled >= Metres(1)
    /\ Last.distance_traveled < Metres(MinDistanceM)
    /\ Last.reading.state # <<>>

\* C25, amended: as long as the movements are at least 1 m (and under 10 m)
\* no more than 4 such cycles in a row are skipped: a cycle of this kind is
\* skipped only at a skip count of at most 3, every skipped one raises the
\* count by one, and after it the count is at most 4.
C25_CreepProceedsAfterFourSkips ==
    Crept
    => /\ self.updateskipped <= MaxSkipped + 1
       /\ Last.calls = <<>>
            => /\ Last.updateskipped_at_gate <= MaxSkipped
               /\ self.updateskipped = Last.updateskipped_at_gate + 1
       /\ Last.updateskipped_at_gate > MaxSkipped => Last.calls # <<>>

\* C25 witness: after a run of moves of less than 1 m had raised the skip
\* count to 5, a move of 9.5 m proceeded and the count is 0
C25_Witness ==
    /\ Crept
    /\ Last.updateskipped_at_gate = MaxSkipped + 2
    /\ Last.distance_traveled = 95
    /\ Last.calls # <<>>
    /\ self.updateskipped = 0

\* ------------------------------------------------------------------ a cycle the gate stops

\* the step of a call of do_update that the gate stops
GateStops == Idle /\ cyc'["t1"].entered /\ ~cyc'["t1"].proceed_with_update

\* the call read a valid position less than 10 m from the stored one, with a
\* location string that differs
SmallMove ==
    /\ CoordinatesAvailable(cyc'["t1"].reading)
    /\ cyc'["t1"].gps_accuracy # 0
    /\ cyc'["t1"].current_location # cyc'["t1"].previous_location
    /\ cyc'["t1"].distance_traveled < Metres(MinDistanceM)

PassedGate == Idle /\ Last.entered /\ Last.proceed_with_update /\ ~Last.raised

\* C27, as stated: the first cycle that passes the gate clears the
\* initial-update flag, also when the lookup fails or returns nothing: after
\* a call that passed the gate and returned the flag is False.
C27_GatePassingCycleClearsFlag == PassedGate => ~self.initial_update

\* the step in which a cycle that made the reverse-geocode request returns
CycleReturns == CycleEnds /\ ~cyc'["t1"].raised

\* C27, amended: the initial-update flag only goes from True to False within
\* the life of an entity.  An entity is created with the flag True exactly
\* when it finds no readable non-empty snapshot; no step but a creation sets
\* it to True; the step that clears it is the return of a cycle that passed
\* the gate with a tracker state that is not empty, and every such return
\* leaves it False, also when the lookup failed or returned nothing.
C27_InitialUpdateLifecycle ==
    [][ /\ Restart => (self'.initial_update <=> DOMAIN JsonLoad(jsonfile) = {})
        /\ ~Restart
             => /\ ~self.initial_update => ~self'.initial_update
                /\ CycleReturns => ~self'.initial_update
                /\ self.initial_update /\ ~self'.initial_update
                     => /\ CycleReturns
                        /\ cyc'["t1"].proceed_with_update
                        /\ cyc'["t1"].reading.state # <<>> ]_vars

\* C27 witness: the first cycle of an entity passed the gate, its lookup
\* returned nothing, and the flag is False
C27_Witness ==
    /\ PassedGate
    /\ Last.initial_at_gate
    /\ Last.calls = <<"geocode">>
    /\ ~Last.decoded
    /\ ~self.initial_update

\* ------------------------------------------------------------------ a lookup that fails

\* C28: in a cycle that passed the gate and whose reverse-geocode request
\* fails or returns an empty or undecodable body, the display value and
\* last_place_name are after the cycle what they were before it, no event is
\* fired and no details or wikidata request is made, while the coordinates,
\* the location strings, the distance from home, the direction and the map
\* link are those of the new position and the skip count is 0.
C28_FailedLookupUpdatesPositionOnly ==
    [][ LookupFails
        => LET l == cyc["t1"]
               r == l.reading
               home == Distance(ToFloat(r.latitude), ToFloat(r.longitude),
                                ToFloat(config.home_latitude),
                                ToFloat(config.home_longitude))
           IN  /\ ~cyc'["t1"].raised
               /\ self'.native_value = l.before.native_value
               /\ self'.last_place_name = l.before.last_place_name
               /\ cyc'["t1"].event = None
               /\ cyc'["t1"].calls = <<"geocode">>
               /\ self'.latitude = r.latitude
               /\ self'.longitude = r.longitude
               /\ self'.location_current = LocationString(r.latitude, r.longitude)
               /\ self'.distance_m = home
               /\ self'.distance_km = RoundKm(home)
               /\ self'.direction = l.direction
               /\ self'.map_link = MapLink(config.map_provider,
                                           LocationString(r.latitude, r.longitude))
               /\ self'.updateskipped = 0 ]_vars

\* C28 witness: after a cycle had displayed a place, a cycle 10 m further
\* failed to look the place up: the display value and last_place_name are
\* kept, the position is the new one
C28_Witness ==
    /\ Idle
    /\ Last.calls = <<"geocode">>
    /\ ~Last.decoded /\ ~Last.raised
    /\ ~Last.initial_at_gate
    /\ self.native_value # None
    /\ self.latitude = Last.reading.latitude
    /\ Last.distance_traveled = Metres(10)
    /\ Last.event = None
    /\ self.updateskipped = 0

\* ------------------------------------------------------------------ the extended attributes

\* the step in which a cycle ends on a tie: the response was decoded and the
\* display state is the one of the cycle before, so no details request is made
CycleTies ==
    /\ LookupDecodes
    /\ pc'["t1"] = "idle"
    /\ ~cyc'["t1"].raised
    /\ ~cyc'["t1"].changed

\* C29, as stated: with extended attributes enabled, a cycle that passed the
\* gate and whose display value is unchanged leaves the stored wikidata_id,
\* details payload and wikidata payload as they were before the cycle.
C29_TieKeepsExtendedAttributes ==
    [][ CycleTies /\ config.extended_attr
        => /\ self'.wikidata_id = cyc["t1"].before.wikidata_id
           /\ self'.osm_details_dict = cyc["t1"].before.osm_details_dict
           /\ self'.wikidata_dict = cyc["t1"].before.wikidata_dict ]_vars

\* ------------------------------------------------------------------ the 'place' option

\* the options string holds the substring 'place'
MentionsPlace ==
    \E i \in 1..Len(config.options) :
        /\ i + 4 <= Len(config.options)
        /\ SubSeq(config.options, i, i + 4) = <<"p","l","a","c","e">>

\* formatted_place made of the street, the city or county and the state
\* abbreviation only, or of the zone's display name inside a zone
PlacelessFormattedPlace(e, devicetracker_zone_name) ==
    IF InZone(e.devicetracker_zone) THEN Strip(devicetracker_zone_name)
    ELSE Join(Item(e.street # None,
                   IF e.street_number = None THEN Strip(e.street)
                   ELSE Strip(e.street_number) \o <<" ">> \o Strip(e.street))
              \o Item(e.city # None, Strip(e.city))
              \o Item(e.city = None /\ e.county # None, Strip(e.county))
              \o Item(e.state_abbr # None, e.state_abbr),
              <<",", " ">>)

\* C30: place_type, place_name and place_category are taken from the decoded
\* response exactly when the options string holds the substring 'place'
\* ('place_name' and 'formatted_place' count); under any other options string
\* all three are None after a parsed response, formatted_place is made without
\* a place name and the event carries none.
C30_PlaceFieldsFollowPlaceSubstring ==
    [][ LookupParsed /\ "error_message" \notin DOMAIN DecodedBody
        => IF MentionsPlace
           THEN LET sources == NameSources(DecodedBody, config.language)
                IN  /\ self'.place_type =
                          IF DecodedBody["type"] = S_yes
                          THEN DecodedBody["addresstype"]
                          ELSE DecodedBody["type"]
                    /\ self'.place_category = Get(DecodedBody, "category")
                    /\ self'.place_name =
                          IF sources = <<>> THEN None
                          ELSE sources[Len(sources)]
                    /\ cyc'["t1"].event # None
                       => cyc'["t1"].event[4] = self'.place_name
           ELSE /\ self'.place_type = None
                /\ self'.place_name = None
                /\ self'.place_category = None
                /\ self'.formatted_place =
                      PlacelessFormattedPlace(self',
                                              cyc["t1"].devicetracker_zone_name)
                /\ cyc'["t1"].event # None => cyc'["t1"].event[4] = None ]_vars

\* C30 witness: under the options 'formatted_place' a cycle outside the zones
\* took the park's type, category and name from the response and fired an
\* event that carries the name
C30_Witness ==
    /\ Idle /\ Last.decoded /\ ~Last.raised
    /\ config = ConfigFormattedPlace
    /\ Last.osm_decoded = BodyPark
    /\ ~InZone(self.devicetracker_zone)
    /\ self.place_type = <<"p","a","r","k">>
    /\ self.place_category = <<"l","e","i","s","u","r","e">>
    /\ self.place_name = <<"P","k">>
    /\ Last.event # None /\ Last.event[4] = <<"P","k">>

====
